---- MODULE Spec2Model ----
(***************************************************************************)
(* Model of the analysis core of desktop-analyzer-ultimate.py              *)
(* (UltimateLogAnalyzer): entry parsing, severity scoring, error           *)
(* classification, causal-chain detection and root-cause ranking, and of   *)
(* run_analysis, which runs them in order on the selected file, measures   *)
(* the run and stores the result dict.                                     *)
(*                                                                         *)
(* Text is modelled as TLA+ strings and every keyword test as a real       *)
(* substring search.  The program's floats are written as integers that    *)
(* keep their order.  A severity is written in tenths (7.0 is 70): each    *)
(* product base * multiplier is a double within one unit in the last place *)
(* of its decimal value (70 * 14 -> 98 stands for 9.799999999999999), no   *)
(* two products share a decimal value, and none lies at a threshold the    *)
(* program compares with.  A confidence is written in units of 0.0001      *)
(* (0.95 is 9500); a double one unit in the last place below a decimal is  *)
(* written one less (0.7999999999999999 is 7999).  A quotient of counts    *)
(* (errors_per_1000_lines, lines_per_second) is written in units of 0.001, *)
(* rounded to the nearest unit.  time.time() is written in whole seconds.  *)
(* The display-only fields 'description' and 'recommendations' of chains   *)
(* and root causes are not carried.                                        *)
(*                                                                         *)
(* The application around the core is modelled as the handlers the Tk main *)
(* loop runs (select_file, clear_file, start_analysis, export_results and  *)
(* the callbacks handed to root.after), each one step, interleaved with    *)
(* the steps of the thread that runs run_analysis.  A str that takes the   *)
(* place of a datetime (export_results) is written [str |-> text].         *)
(***************************************************************************)
EXTENDS Integers, Sequences, FiniteSets, TLC

VARIABLES
    pc,            \* position of the run being modelled
    content,       \* the text handed to parse_log_entries, as its lines
    clock,         \* what datetime.now() returns when the run starts
    clock_tick,    \* microseconds datetime.now() advances from line to line
    entries,       \* result of parse_log_entries
    errors,        \* first result of analyze_patterns
    patterns,      \* second result of analyze_patterns (dict, insertion order)
    sorted_entries,\* build_causal_chains: the local sorted_entries
    chains,        \* result of build_causal_chains inside identify_root_causes
    root_causes,   \* result of identify_root_causes
    sev_level,     \* calculate_severity: argument level
    sev_message,   \* calculate_severity: argument message
    sev_result,    \* calculate_severity: returned score, -1 before the call
    cls_line,      \* extract_timestamp, extract_log_level, classify_error:
                   \* the argument
    cls_timestamp, \* extract_timestamp: <<returned datetime>>, <<>> before
                   \* the call
    cls_level,     \* extract_log_level: returned level, "" before the call
    cls_type,      \* classify_error: returned label, "" before the call
    selected_file,     \* self.selected_file, "" for None
    analysis_results,  \* self.analysis_results, <<>> for None, else <<dict>>
    ai_available,      \* self.ai_available
    ai_models,         \* self.ai_models
    selected_ai_model, \* self.selected_ai_model
    analysis_running,  \* self.analysis_running
    analysis_mode,     \* self.analysis_mode.get()
    start_time,        \* self.start_time, -1 while the attribute is not set
    log_type,            \* run_analysis: the local log_type, "" before it is set
    performance_metrics, \* run_analysis: the local, <<>> before it is set
    walltime,          \* what time.time() returns
    run_start,         \* what time.time() returned when the run in progress or
                       \* last ended began, -1 before the first run
    runs,              \* the runs of run_analysis that have ended
    first_results,     \* self.analysis_results as the first run left it
    files,             \* the file system: the text of each path, as its lines
    opened_file,       \* the path run_analysis opened, "" before it opens one
    live_threads,      \* the threads of run_analysis started and not ended
    caught,            \* run_analysis: the local e of the except clause in
                       \* each run, <<>> while unbound, else <<str(e)>>
    raised,            \* str() of the exception each run has raised, <<>> if none
    after_queue,       \* callbacks handed to root.after and not yet run
    dialogs,           \* the message boxes shown, oldest first
    callback_errors,   \* exceptions raised inside callbacks of the main loop
    analyze_btn,       \* state of self.analyze_btn
    progress_shown,    \* whether self.progress_frame is packed
    exported           \* what export_results wrote, oldest first

\* The result variables of the analysis steps.
step_vars == <<content, clock, clock_tick, entries, errors, patterns, sorted_entries,
               chains, root_causes>>

sev_vars == <<sev_level, sev_message, sev_result>>

cls_vars == <<cls_line, cls_timestamp, cls_level, cls_type>>

\* The attributes of the analyzer object.
analyzer_vars == <<selected_file, analysis_results, ai_available, ai_models,
                   selected_ai_model, analysis_running, analysis_mode,
                   start_time>>

run_vars == <<log_type, performance_metrics, walltime, run_start, runs,
             first_results>>

\* The files, the widgets and the main loop of the application.
ui_vars == <<files, opened_file, live_threads, caught, raised, after_queue,
             dialogs, callback_errors, analyze_btn, progress_shown, exported>>

vars == <<pc, step_vars, sev_vars, cls_vars, analyzer_vars, run_vars, ui_vars>>

\* No call of calculate_severity is modelled.
NoSeverityCall == sev_level = "" /\ sev_message = "" /\ sev_result = -1

\* No call of extract_log_level or classify_error on a line is modelled.
NoLineCall ==
    cls_line = "" /\ cls_timestamp = <<>> /\ cls_level = "" /\ cls_type = ""

\* The attributes as __init__ sets them, when no model server answers.
AnalyzerAsConstructed ==
    /\ selected_file = ""
    /\ analysis_results = <<>>
    /\ ai_available = FALSE
    /\ ai_models = <<>>
    /\ selected_ai_model = "Rule-based"
    /\ analysis_running = FALSE
    /\ analysis_mode = "smart"
    /\ start_time = -1

\* No run of run_analysis is modelled.
NoRun ==
    /\ log_type = ""
    /\ performance_metrics = <<>>
    /\ walltime = 0
    /\ run_start = -1
    /\ runs = 0
    /\ first_results = <<>>

\* The widgets as setup_gui leaves them, no file and no callback.
UiAsConstructed ==
    /\ files = <<>>
    /\ opened_file = ""
    /\ live_threads = 0
    /\ caught = <<>>
    /\ raised = <<>>
    /\ after_queue = <<>>
    /\ dialogs = <<>>
    /\ callback_errors = 0
    /\ analyze_btn = "disabled"
    /\ progress_shown = FALSE
    /\ exported = <<>>

----------------------------------------------------------------------------
(* Strings and sequences                                                   *)

Min2(a, b) == IF a <= b THEN a ELSE b

SetMin(S) == CHOOSE x \in S : \A y \in S : x <= y

SetMax(S) == CHOOSE x \in S : \A y \in S : x >= y

Range(s) == {s[i] : i \in DOMAIN s}

\* Python: k in s
Contains(s, k) ==
    \E i \in 1..(Len(s) - Len(k) + 1) : SubSeq(s, i, i + Len(k) - 1) = k

UpperAlpha == "ABCDEFGHIJKLMNOPQRSTUVWXYZ"

LowerAlpha == "abcdefghijklmnopqrstuvwxyz"

Digits == "0123456789"

LowerChar(c) ==
    IF \E i \in 1..Len(UpperAlpha) : SubSeq(UpperAlpha, i, i) = c
    THEN LET i == CHOOSE j \in 1..Len(UpperAlpha) : SubSeq(UpperAlpha, j, j) = c
         IN SubSeq(LowerAlpha, i, i)
    ELSE c

UpperChar(c) ==
    IF \E i \in 1..Len(LowerAlpha) : SubSeq(LowerAlpha, i, i) = c
    THEN LET i == CHOOSE j \in 1..Len(LowerAlpha) : SubSeq(LowerAlpha, j, j) = c
         IN SubSeq(UpperAlpha, i, i)
    ELSE c

RECURSIVE Lower(_)
\* Python: s.lower()
Lower(s) ==
    IF Len(s) = 0 THEN ""
    ELSE LowerChar(SubSeq(s, 1, 1)) \o Lower(SubSeq(s, 2, Len(s)))

RECURSIVE Upper(_)
\* Python: s.upper()
Upper(s) ==
    IF Len(s) = 0 THEN ""
    ELSE UpperChar(SubSeq(s, 1, 1)) \o Upper(SubSeq(s, 2, Len(s)))

IsDigit(c) == Len(c) = 1 /\ Contains(Digits, c)

IsAlpha(c) == Len(c) = 1 /\ Contains(LowerAlpha \o UpperAlpha, c)

IsWord(c) == IsAlpha(c) \/ IsDigit(c) \/ c = "_"

IsSpace(c) == c \in {" ", "\t"}

\* Python: s.strip()
Strip(s) ==
    LET solid == {i \in 1..Len(s) : ~IsSpace(SubSeq(s, i, i))}
    IN IF solid = {} THEN "" ELSE SubSeq(s, SetMin(solid), SetMax(solid))

RECURSIVE Join(_, _)
\* Python: sep.join(parts)
Join(sep, parts) ==
    IF Len(parts) = 0 THEN ""
    ELSE IF Len(parts) = 1 THEN parts[1]
    ELSE parts[1] \o sep \o Join(sep, Tail(parts))

RECURSIVE Replace(_, _, _)
\* s.replace(old, new) for a one-character old
Replace(s, old, new) ==
    IF Len(s) = 0 THEN ""
    ELSE (IF SubSeq(s, 1, 1) = old THEN new ELSE SubSeq(s, 1, 1))
         \o Replace(SubSeq(s, 2, Len(s)), old, new)

RECURSIVE TitleFrom(_, _)
TitleFrom(s, after_letter) ==
    IF Len(s) = 0 THEN ""
    ELSE LET c == SubSeq(s, 1, 1)
         IN (IF after_letter THEN LowerChar(c) ELSE UpperChar(c))
            \o TitleFrom(SubSeq(s, 2, Len(s)), IsAlpha(c))

\* Python: s.title()
Title(s) == TitleFrom(s, FALSE)

\* The sequences of length at most n over S.
SeqsUpTo(S, n) == UNION {[1..k -> S] : k \in 0..n}

RECURSIVE Pick(_, _, _)
\* The elements of s at the positions in I, from position i on, in order.
Pick(s, I, i) ==
    IF i > Len(s) THEN <<>>
    ELSE (IF i \in I THEN <<s[i]>> ELSE <<>>) \o Pick(s, I, i + 1)

\* The subsequences of s.
Subsequences(s) == {Pick(s, I, 1) : I \in SUBSET DOMAIN s}

\* s back to front.
Reverse(s) == [i \in DOMAIN s |-> s[Len(s) + 1 - i]]

----------------------------------------------------------------------------
(* The keyword tables of the source                                        *)

success_indicators ==
    << "completed successfully", "success", "passed", "ok", "normal",
       "healthy", "good", "operational", "ready", "online", "active",
       "optimal", "excellent", "within normal range", "is good", "is normal",
       "is optimal", "is excellent", "100%", "all systems operational",
       "is valid", "are running normally", "test passed",
       "responded successfully" >>

base_scores ==
    [CRITICAL |-> 10, FATAL |-> 10, ERROR |-> 7, WARNING |-> 5, WARN |-> 5,
     INFO |-> 3, DEBUG |-> 1, TRACE |-> 1]

\* The dict literal in insertion order, which is the order .items() yields;
\* multipliers in tenths.
failure_keywords ==
    << [keyword |-> "panic", multiplier |-> 20],
       [keyword |-> "crash", multiplier |-> 18],
       [keyword |-> "failed", multiplier |-> 17],
       [keyword |-> "failure", multiplier |-> 17],
       [keyword |-> "segfault", multiplier |-> 19],
       [keyword |-> "timeout", multiplier |-> 14],
       [keyword |-> "denied", multiplier |-> 15],
       [keyword |-> "authentication", multiplier |-> 14],
       [keyword |-> "permission", multiplier |-> 13],
       [keyword |-> "refused", multiplier |-> 14],
       [keyword |-> "unreachable", multiplier |-> 15],
       [keyword |-> "disconnected", multiplier |-> 13],
       [keyword |-> "lost", multiplier |-> 13] >>

levels == <<"CRITICAL", "FATAL", "ERROR", "WARNING", "WARN", "INFO", "DEBUG", "TRACE">>

error_indicators == <<"exception", "error", "failed", "failure", "crash", "panic">>

warning_indicators == <<"warning", "warn", "deprecated", "timeout", "retry">>

\* The dict literal in insertion order.
classifications ==
    << [category |-> "Hardware",
        keywords |-> <<"vrm", "voltage", "thermal", "temperature", "cpu",
                       "memory", "dimm", "ecc", "sensors", "fan">>],
       [category |-> "Firmware",
        keywords |-> <<"bios", "uefi", "firmware", "boot", "microcode", "driver">>],
       [category |-> "Database",
        keywords |-> <<"database", "sql", "connection", "query", "table",
                       "schema", "mysql", "postgres">>],
       [category |-> "Network",
        keywords |-> <<"network", "timeout", "socket", "connection", "http",
                       "tcp", "udp", "dns", "ssl">>],
       [category |-> "Memory",
        keywords |-> <<"memory", "heap", "oom", "allocation", "garbage",
                       "leak", "buffer">>],
       [category |-> "Filesystem",
        keywords |-> <<"file", "permission", "disk", "directory", "io",
                       "read", "write", "space">>],
       [category |-> "Authentication",
        keywords |-> <<"auth", "login", "credential", "token", "session",
                       "password", "unauthorized">>],
       [category |-> "Security",
        keywords |-> <<"security", "access", "forbidden", "ssl", "tls",
                       "certificate", "encryption">>],
       [category |-> "Performance",
        keywords |-> <<"slow", "performance", "latency", "bottleneck", "cpu",
                       "lag", "delay">>],
       [category |-> "Configuration",
        keywords |-> <<"config", "setting", "parameter", "property",
                       "environment", "variable">>],
       [category |-> "Pipeline",
        keywords |-> <<"build", "deploy", "pipeline", "ci", "cd", "jenkins",
                       "azure", "docker">>],
       [category |-> "Testing",
        keywords |-> <<"test", "assert", "pytest", "jest", "junit", "spec",
                       "mock", "fixture">>] >>

generic_error_words == <<"error", "exception", "fail", "crash", "panic">>

generic_warning_words == <<"warn", "warning", "deprecated">>

\* The dict literal in insertion order.
causal_patterns ==
    << [name |-> "power_cascade",
        triggers |-> <<"vrm", "voltage", "power">>,
        chain |-> <<"VRM instability", "Voltage regulation failure",
                    "Power delivery issues", "Component undervolt",
                    "System instability">>,
        effects |-> <<"thermal", "cpu", "hang", "crash", "reset">>],
       [name |-> "thermal_cascade",
        triggers |-> <<"thermal", "temperature", "overheat">>,
        chain |-> <<"Thermal threshold exceeded", "CPU throttling engaged",
                    "Performance degradation", "Thermal protection triggered",
                    "Emergency shutdown">>,
        effects |-> <<"throttle", "slow", "hang", "shutdown", "reboot">>],
       [name |-> "memory_cascade",
        triggers |-> <<"memory", "dram", "ecc">>,
        chain |-> <<"Memory error detected", "ECC correction attempts",
                    "Uncorrectable errors", "Memory controller panic",
                    "System halt">>,
        effects |-> <<"correction", "uncorrectable", "panic", "halt", "crash">>] >>

\* timedelta(minutes=30)
time_window == 30

\* detect_log_type: the indicators of each log type, the types in the order
\* of the dict scores.
log_type_keywords ==
    << [type |-> "firmware",
        keywords |-> <<"vrm", "voltage", "thermal", "ecc", "memory", "cpu",
                       "bios", "dimm", "sensors", "temperature">>],
       [type |-> "pipeline",
        keywords |-> <<"build", "deploy", "pipeline", "azure", "jenkins",
                       "docker", "npm", "maven", "gradle">>],
       [type |-> "testing",
        keywords |-> <<"test", "assert", "pytest", "jest", "junit", "spec",
                       "mock", "fixture">>] >>

\* self.optimal_models
optimal_models ==
    [firmware |-> <<"deepseek-coder:6.7b", "codellama:13b", "phi3:medium">>,
     pipeline |-> <<"codellama:13b", "mistral:7b-instruct", "llama3.1:8b">>,
     testing |-> <<"deepseek-coder:6.7b", "codellama:7b", "phi3:mini">>,
     general |-> <<"llama3.1:8b", "mistral:7b-instruct", "codellama:7b">>]

\* Every keyword some table tests a lowercased message for.
AllKeywords ==
    Range(success_indicators)
    \cup {failure_keywords[i].keyword : i \in DOMAIN failure_keywords}
    \cup Range(error_indicators) \cup Range(warning_indicators)
    \cup UNION {Range(classifications[i].keywords) : i \in DOMAIN classifications}
    \cup Range(generic_error_words) \cup Range(generic_warning_words)
    \cup UNION {Range(causal_patterns[i].triggers) \cup Range(causal_patterns[i].effects)
                : i \in DOMAIN causal_patterns}
    \cup UNION {Range(log_type_keywords[i].keywords) : i \in DOMAIN log_type_keywords}

----------------------------------------------------------------------------
(* Bounds and inputs                                                       *)

\* The longest text over LineInputs, in lines.
MaxLines == 3

\* Lines of a mixed log: the three cascades' triggers and effects, gaps of
\* exactly 30 and of 31 minutes, severities 5.4, 6.0, 7.0 and 10, a success
\* line, a success line without a timestamp and padded, a blank line.
LineInputs ==
    { "2024-01-01 10:00:00 ERROR VRM voltage out of range",
      "2024-01-01 10:01:00 CRITICAL thermal shutdown triggered",
      "2024-01-01 10:30:00 ERROR cpu hang, system reset",
      "2024-01-01 11:01:00 ERROR system reboot slow",
      "2024-01-01 10:05:00 INFO Operation completed successfully",
      "2024-01-01 10:10:00 INFO kernel panic",
      "2024-01-01 10:00:00 [WARN] memory ecc correction",
      "2024-01-01 10:20:00 INFO crash report saved",
      "  power supply is good  ",
      "" }

\* A cascade that runs on: one power trigger and five effects, each
\* 30 minutes after the one before; the fifth line is a thermal trigger as
\* well and the sixth an effect of it.
CascadeLines ==
    << "2024-03-01 08:00:00 ERROR power rail unstable",
       "2024-03-01 08:30:00 ERROR cpu fault",
       "2024-03-01 09:00:00 ERROR system hang",
       "2024-03-01 09:30:00 ERROR watchdog reset",
       "2024-03-01 10:00:00 CRITICAL thermal trip",
       "2024-03-01 10:30:00 ERROR cpu stall, reboot" >>

\* Every selection of the cascade's lines, as logged and newest first.
CascadeInputs ==
    Subsequences(CascadeLines) \cup {Reverse(c) : c \in Subsequences(CascadeLines)}

\* The texts analysed: every short text over LineInputs, and the cascades.
ContentInputs == SeqsUpTo(LineInputs, MaxLines) \cup CascadeInputs

\* Clock readings: long after the log was written, and while it is written.
NowInputs ==
    { [year |-> 2026, month |-> 11, day |-> 3, hour |-> 8, minute |-> 0,
       second |-> 0, microsecond |-> 5],
      [year |-> 2024, month |-> 1, day |-> 1, hour |-> 10, minute |-> 15,
       second |-> 0, microsecond |-> 0] }

\* Microseconds the clock advances between two lines: none (a coarse clock) or one.
TickInputs == {0, 1}

\* The eight levels and two values outside the enumeration.
LevelInputs == Range(levels) \cup {"NOTICE", "error"}

MessageInputs ==
    { "disk scan started",
      "Operation completed successfully",
      "kernel panic: all systems operational",
      "backup FAILED: crash in worker",
      "request failed after timeout",
      "host unreachable after timeout",
      "permission denied",
      "segfault: authentication failure",
      "connection refused, link lost",
      "peer disconnected",
      "auth token rejected",
      "cpu load 100% after crash",
      "login failed: certificate is valid",
      "link lost then unreachable" }

\* The lines of the files run_analysis reads: an error of the firmware
\* kind, a line of the pipeline kind without a timestamp and with blanks
\* around it, and a line of blanks.
RunLines ==
    { "2024-01-01 10:00:00 ERROR VRM voltage out of range",
      "  docker build: pipeline deploy retry ",
      "   " }

\* Files of the firmware kind and of the testing kind, with entries of
\* every severity range and with entries of one timestamp.
RunTexts ==
    { << "2024-01-01 10:00:00 ERROR VRM voltage out of range",
         "",
         "2024-01-01 10:01:00 CRITICAL thermal shutdown triggered",
         "2024-01-01 10:05:00 INFO Operation completed successfully",
         "2024-01-01 10:00:00 [WARN] memory ecc correction" >>,
      << "2024-01-01 10:30:00 ERROR cpu hang, system reset",
         "2024-01-01 10:00:00 ERROR VRM voltage out of range",
         "2024-01-01 10:30:00 ERROR cpu hang, system reset",
         "2024-01-01 10:00:00 ERROR VRM voltage out of range" >>,
      << "2024-01-01 10:00:00 ERROR pytest: test_spec assert failed" >> }

\* The empty file and a file of line breaks only.
EmptyTexts == { <<"">>, <<"", "", "">> }

RunContentInputs ==
    (SeqsUpTo(RunLines, MaxLines) \ {<<>>}) \cup RunTexts \cup EmptyTexts

\* Every message the specifications score or classify, and every line of a
\* text as it stands.
KnownMessages ==
    LET lines == LineInputs \cup Range(CascadeLines) \cup RunLines
                 \cup UNION {Range(t) : t \in RunTexts}
    IN lines \cup {Strip(l) : l \in lines} \cup MessageInputs


\* Lines for extract_log_level and classify_error: each level in each of the
\* three tag forms, lines with two tags, lines whose level or label comes
\* from a keyword, a keyword of every category, and keywords two categories
\* share.
TagFormLines ==
    UNION {{"[" \o l \o "] service event", "node7 " \o l \o " service event",
            l \o ": service event"}
           : l \in {"CRITICAL", "FATAL", "ERROR", "WARNING", "WARN", "INFO",
                    "DEBUG", "TRACE"}}

LineTextInputs ==
    TagFormLines \cup
    { "[INFO] ERROR: memory leak in worker",
      "WARN: [FATAL] connection refused",
      "[warning] Critical: cpu lag",
      "[Debug] trace: tls certificate expired",
      "request failed after timeout",
      "request timeout, retry scheduled",
      "deprecated call",
      "all quiet",
      "TERROR: heap oom",
      "fan stopped ERROR",
      "job queue WARN",
      "uefi boot DEBUG",
      "ssl handshake reset",
      "sql query aborted",
      "MEMORY pressure",
      "login rejected",
      "access forbidden",
      "latency high",
      "config setting missing",
      "jenkins job stopped",
      "junit suite stopped",
      "disk full",
      "unhandled exception",
      "panic: stack unwound",
      "warn once" }

\* The forms of the ISO-8601-like family: the separator of date and time,
\* the fraction and the suffix.
IsoForms ==
    [separator : {"T", " "}, fraction : {"", ".250"},
     suffix : {"", "Z", "+05:30", "-08:00"}]

\* The text of the form for 5 March 2024, 14:07:09.
IsoText(form) ==
    "2024-03-05" \o form.separator \o "14:07:09" \o form.fraction \o form.suffix

\* Lines for extract_timestamp: every form of the first family at the head
\* of a line and inside one, the three other families, a date that matches
\* the first pattern and is none, a syslog date behind a date that is none,
\* fractions of other lengths, and lines without a timestamp.
TimestampLineInputs ==
    {IsoText(form) \o " ERROR fan stopped" : form \in IsoForms}
    \cup {"node7 [" \o IsoText(form) \o "] fan stopped" : form \in IsoForms}
    \cup { "03/05/2024 14:07:09 ERROR fan stopped",
           "Mar 05 14:07:09 node7 fan stopped",
           "05-Mar-2024 14:07:09 ERROR fan stopped",
           "2024-13-05 14:07:09 ERROR fan stopped",
           "2024-02-30 14:07:09 up since Mar 05 14:07:09",
           "2024-03-05 14:07:09.250123 ERROR fan stopped",
           "2024-03-05 14:07:09.25 ERROR fan stopped",
           "2024-03-05 24:07:09 ERROR fan stopped",
           "ERROR fan stopped",
           "14:07:09 ERROR fan stopped" }

\* Files for export_results: without an error (success lines only, one with a
\* fraction of a second, one without a timestamp), with an error, with an
\* entry that is both warning and error, with both kinds of line, and empty.
ExportContentInputs ==
    { << "2024-01-01 10:05:00 INFO Operation completed successfully" >>,
      << "2024-01-01 10:05:00.250 INFO Operation completed successfully",
         "backup is healthy" >>,
      << "2024-01-01 10:00:00 ERROR VRM voltage out of range" >>,
      << "2024-01-01 10:00:00 [WARN] memory ecc correction" >>,
      << "2024-01-01 10:00:00 ERROR VRM voltage out of range",
         "2024-01-01 10:05:00 INFO Operation completed successfully" >>,
      << "" >> }

\* What asksaveasfilename returns: a path, or "" when the user cancels.
SavePathInputs == {"/tmp/analysis.json", ""}
----------------------------------------------------------------------------
(* keyword in message.lower()                                              *)

\* For each known message, the keywords that occur in its lowercased text.
MentionsTable ==
    [m \in KnownMessages |-> {k \in AllKeywords : Contains(Lower(m), k)}]

\* message_lower = message.lower(); keyword in message_lower
\* (looked up for the known messages, searched for otherwise)
mentions(message, keyword) ==
    IF message \in KnownMessages /\ keyword \in AllKeywords
    THEN keyword \in MentionsTable[message]
    ELSE Contains(Lower(message), keyword)

\* any(keyword in message_lower for keyword in keywords)
mentions_any(message, keywords) ==
    \E i \in DOMAIN keywords : mentions(message, keywords[i])

----------------------------------------------------------------------------
(* calculate_severity                                                      *)

\* any(indicator in message_lower for indicator in success_indicators)
is_success(message) == mentions_any(message, success_indicators)

\* base_scores.get(level, 3)
base_score(level) ==
    IF level \in DOMAIN base_scores THEN base_scores[level] ELSE 3

\* The failure keywords that occur in the message, by position in the dict.
failure_hits(message) ==
    {i \in DOMAIN failure_keywords : mentions(message, failure_keywords[i].keyword)}

RECURSIVE compound_from(_, _, _)
compound_from(i, score, message) ==
    IF i > Len(failure_keywords) THEN score
    ELSE compound_from(i + 1,
             IF mentions(message, failure_keywords[i].keyword)
             THEN (score * failure_keywords[i].multiplier) \div 10
             ELSE score,
             message)

\* apply_multiplier without its break: every matching multiplier is applied.
apply_multiplier_compounding(score, message) ==
    compound_from(1, score * 10, message)

\* apply_multiplier trying the keywords by descending multiplier instead of
\* in the dict's order.
apply_multiplier_largest(score, message) ==
    IF failure_hits(message) = {} THEN score * 10
    ELSE score * SetMax({failure_keywords[i].multiplier : i \in failure_hits(message)})

\* for keyword, multiplier in failure_keywords.items():
\*     if keyword in message_lower: score *= multiplier; break
\* The result is in tenths.
apply_multiplier(score, message) ==
    IF failure_hits(message) = {} THEN score * 10
    ELSE score * failure_keywords[SetMin(failure_hits(message))].multiplier

\* calculate_severity with the level looked at before the success phrases.
calculate_severity_level_first(level, message) ==
    IF is_success(message) /\ base_score(level) < 10 THEN 0
    ELSE Min2(apply_multiplier(base_score(level), message), 100)

\* The score in tenths.
calculate_severity(level, message) ==
    IF is_success(message) THEN 0
    ELSE Min2(apply_multiplier(base_score(level), message), 100)

----------------------------------------------------------------------------
(* extract_log_level                                                       *)

\* The test for a level tag with the form '[LEVEL]' alone.
has_level_tag_in_brackets(line_upper, level) ==
    Contains(line_upper, "[" \o level \o "]")

\* f'[{level}]' in line_upper or f' {level} ' in line_upper or f'{level}:' in line_upper
has_level_tag(line_upper, level) ==
    \/ Contains(line_upper, "[" \o level \o "]")
    \/ Contains(line_upper, " " \o level \o " ")
    \/ Contains(line_upper, level \o ":")

\* The body of extract_log_level.
scan_log_level(line) ==
    LET line_upper == Upper(line)
        tagged == {i \in DOMAIN levels : has_level_tag(line_upper, levels[i])}
    IN IF tagged # {} THEN levels[SetMin(tagged)]
       ELSE IF mentions_any(line, error_indicators) THEN "ERROR"
       ELSE IF mentions_any(line, warning_indicators) THEN "WARNING"
       ELSE "INFO"

\* scan_log_level of each known line.
LevelTable == [l \in KnownMessages |-> scan_log_level(l)]

\* The level of a known line is looked up, any other is scanned.
extract_log_level(line) ==
    IF line \in KnownMessages THEN LevelTable[line] ELSE scan_log_level(line)

----------------------------------------------------------------------------
(* classify_error                                                          *)

\* classify_error returning the last category of the dict with a keyword
\* in the line.
classify_error_last_category(line) ==
    LET hit == {i \in DOMAIN classifications :
                    mentions_any(line, classifications[i].keywords)}
    IN IF hit # {} THEN classifications[SetMax(hit)].category
       ELSE IF mentions_any(line, generic_error_words) THEN "Application"
       ELSE IF mentions_any(line, generic_warning_words) THEN "Warning"
       ELSE "General"

classify_error(line) ==
    LET hit == {i \in DOMAIN classifications :
                    mentions_any(line, classifications[i].keywords)}
    IN IF hit # {} THEN classifications[SetMin(hit)].category
       ELSE IF mentions_any(line, generic_error_words) THEN "Application"
       ELSE IF mentions_any(line, generic_warning_words) THEN "Warning"
       ELSE "General"

----------------------------------------------------------------------------
(* datetime values                                                         *)
(* A datetime is a record of its civil fields, as Python's is; an optional *)
(* datetime is <<>> (None) or <<dt>>.                                      *)

IsLeap(y) == (y % 4 = 0) /\ ((y % 100 # 0) \/ (y % 400 = 0))

DaysInMonth(y, m) ==
    IF m = 2 THEN (IF IsLeap(y) THEN 29 ELSE 28)
    ELSE IF m \in {4, 6, 9, 11} THEN 30 ELSE 31

RECURSIVE DaysBeforeMonth(_, _)
DaysBeforeMonth(y, m) ==
    IF m = 1 THEN 0 ELSE DaysBeforeMonth(y, m - 1) + DaysInMonth(y, m - 1)

\* datetime.toordinal()
Ordinal(dt) ==
    LET y == dt.year - 1
    IN y * 365 + (y \div 4) - (y \div 100) + (y \div 400)
       + DaysBeforeMonth(dt.year, dt.month) + dt.day

\* The position of a datetime on the time line: <<day, second of day, microsecond>>.
TimeKey(dt) ==
    <<Ordinal(dt), dt.hour * 3600 + dt.minute * 60 + dt.second, dt.microsecond>>

\* key + timedelta(minutes = n)
KeyPlusMinutes(key, n) ==
    LET s == key[2] + n * 60
    IN <<key[1] + (s \div 86400), s % 86400, key[3]>>

KeyLess(a, b) ==
    \/ a[1] < b[1]
    \/ a[1] = b[1] /\ a[2] < b[2]
    \/ a[1] = b[1] /\ a[2] = b[2] /\ a[3] < b[3]

KeyLessEq(a, b) == a = b \/ KeyLess(a, b)

\* datetime(year, month, day, hour, minute, second, microsecond), <<>> for ValueError
make_datetime(f) ==
    IF /\ f.Y \in 1..9999
       /\ f.m \in 1..12
       /\ f.d \in 1..DaysInMonth(f.Y, f.m)
       /\ f.H \in 0..23 /\ f.M \in 0..59 /\ f.S \in 0..59
    THEN << [year |-> f.Y, month |-> f.m, day |-> f.d, hour |-> f.H,
             minute |-> f.M, second |-> f.S, microsecond |-> f.f] >>
    ELSE <<>>

----------------------------------------------------------------------------
(* re.search over the four timestamp patterns                              *)

AllDigits(s) == \A i \in 1..Len(s) : IsDigit(SubSeq(s, i, i))

DigitValue(c) == (CHOOSE i \in 1..Len(Digits) : SubSeq(Digits, i, i) = c) - 1

RECURSIVE Num(_)
\* int(s) for a string of digits
Num(s) ==
    IF Len(s) = 0 THEN 0
    ELSE Num(SubSeq(s, 1, Len(s) - 1)) * 10 + DigitValue(SubSeq(s, Len(s), Len(s)))

RECURSIVE Str(_)
\* str(n) for n >= 0
Str(n) ==
    IF n < 10 THEN SubSeq(Digits, n + 1, n + 1)
    ELSE Str(n \div 10) \o SubSeq(Digits, (n % 10) + 1, (n % 10) + 1)

\* The regular expressions, one template character per input character:
\* d is \d, w is \w, s is [T\s], x is [+-], any other character is itself.
timestamp_patterns ==
    << "dddd-dd-ddsdd:dd:dd",
       "dd/dd/dddd dd:dd:dd",
       "www dd dd:dd:dd",
       "dd-www-dddd dd:dd:dd" >>

CharMatches(t, c) ==
    CASE t = "d" -> IsDigit(c)
      [] t = "w" -> IsWord(c)
      [] t = "s" -> (c = "T" \/ IsSpace(c))
      [] t = "x" -> c \in {"+", "-"}
      [] OTHER -> t = c

MatchAt(s, i, tmpl) ==
    /\ i + Len(tmpl) - 1 <= Len(s)
    /\ \A j \in 1..Len(tmpl) :
           CharMatches(SubSeq(tmpl, j, j), SubSeq(s, i + j - 1, i + j - 1))

\* re.search(patterns[p], line).group(1); "" when there is no match.  The
\* first pattern ends with the greedy optional groups (?:\.\d{3})? and
\* (?:Z|[+-]\d{2}:\d{2})?.
search_group(line, p) ==
    LET tmpl == timestamp_patterns[p]
        starts == {i \in 1..Len(line) : MatchAt(line, i, tmpl)}
    IN IF starts = {} THEN ""
       ELSE LET i == SetMin(starts)
                e0 == i + Len(tmpl)
                e1 == IF p = 1 /\ MatchAt(line, e0, ".ddd") THEN e0 + 4 ELSE e0
                e2 == IF p = 1 /\ MatchAt(line, e1, "Z") THEN e1 + 1
                      ELSE IF p = 1 /\ MatchAt(line, e1, "xdd:dd") THEN e1 + 6
                      ELSE e1
            IN SubSeq(line, i, e2 - 1)

----------------------------------------------------------------------------
(* datetime.strptime                                                       *)

month_abbr ==
    <<"jan", "feb", "mar", "apr", "may", "jun",
      "jul", "aug", "sep", "oct", "nov", "dec">>

\* The widths a directive's regular expression can consume.
DirectiveWidths(d) ==
    CASE d = "Y" -> {4}
      [] d = "f" -> 1..6
      [] d = "b" -> {3}
      [] OTHER -> {1, 2}

\* Whether txt matches the directive's regular expression.
DirectiveMatches(d, txt) ==
    LET n == Num(txt)
        two == Len(txt) = 2
    IN CASE d = "Y" -> AllDigits(txt)
         [] d = "m" -> AllDigits(txt) /\ (IF two THEN n \in 1..12 ELSE n \in 1..9)
         [] d = "d" -> \/ AllDigits(txt) /\ (IF two THEN n \in 1..31 ELSE n \in 1..9)
                       \/ /\ two
                          /\ SubSeq(txt, 1, 1) = " "
                          /\ IsDigit(SubSeq(txt, 2, 2))
                          /\ SubSeq(txt, 2, 2) # "0"
         [] d = "H" -> AllDigits(txt) /\ (two => n <= 23)
         [] d = "M" -> AllDigits(txt) /\ (two => n <= 59)
         [] d = "S" -> AllDigits(txt) /\ (two => n <= 61)
         [] d = "f" -> AllDigits(txt)
         [] d = "b" -> Lower(txt) \in Range(month_abbr)
         [] OTHER -> FALSE

RECURSIVE Pow10(_)
Pow10(n) == IF n = 0 THEN 1 ELSE 10 * Pow10(n - 1)

DirectiveValue(d, txt) ==
    CASE d = "f" -> Num(txt) * Pow10(6 - Len(txt))
      [] d = "b" -> CHOOSE i \in DOMAIN month_abbr : month_abbr[i] = Lower(txt)
      [] d = "d" /\ SubSeq(txt, 1, 1) = " " -> Num(SubSeq(txt, 2, 2))
      [] OTHER -> Num(txt)

\* %b sets the month, as %m does.
DirectiveField(d) == IF d = "b" THEN "m" ELSE d

RECURSIVE ParseFrom(_, _, _, _, _)
\* The field assignments under which s[i..] matches fmt[j..] to its end.
\* A space of the format matches \s+, any other plain character itself.
ParseFrom(s, i, fmt, j, acc) ==
    IF j > Len(fmt) THEN (IF i > Len(s) THEN {acc} ELSE {})
    ELSE LET c == SubSeq(fmt, j, j)
         IN IF c = "%"
            THEN LET d == SubSeq(fmt, j + 1, j + 1)
                 IN UNION { ParseFrom(s, i + w, fmt, j + 2,
                                [acc EXCEPT ![DirectiveField(d)] =
                                     DirectiveValue(d, SubSeq(s, i, i + w - 1))])
                            : w \in {v \in DirectiveWidths(d) :
                                        /\ i + v - 1 <= Len(s)
                                        /\ DirectiveMatches(d, SubSeq(s, i, i + v - 1))} }
            ELSE IF c = " "
            THEN UNION { ParseFrom(s, i + k, fmt, j + 1, acc)
                         : k \in {v \in 1..(Len(s) - i + 1) :
                                     \A u \in i..(i + v - 1) : IsSpace(SubSeq(s, u, u))} }
            ELSE IF i <= Len(s) /\ SubSeq(s, i, i) = c
                 THEN ParseFrom(s, i + 1, fmt, j + 1, acc)
                 ELSE {}

\* datetime.strptime(s, fmt): <<dt>>, or <<>> where Python raises ValueError
strptime(s, fmt) ==
    LET found == ParseFrom(s, 1, fmt, 1,
                     [Y |-> 1900, m |-> 1, d |-> 1, H |-> 0, M |-> 0, S |-> 0, f |-> 0])
    IN IF found = {} THEN <<>> ELSE make_datetime(CHOOSE f \in found : TRUE)

----------------------------------------------------------------------------
(* extract_timestamp                                                       *)

formats ==
    << "%Y-%m-%d %H:%M:%S.%f",
       "%Y-%m-%d %H:%M:%S",
       "%Y-%m-%dT%H:%M:%S.%fZ",
       "%Y-%m-%dT%H:%M:%S",
       "%m/%d/%Y %H:%M:%S",
       "%b %d %H:%M:%S",
       "%d-%b-%Y %H:%M:%S" >>

\* The body of the inner try: one format applied to the matched text.
try_format(timestamp_str, fmt, current_year) ==
    IF fmt = "%b %d %H:%M:%S"
    THEN strptime(Str(current_year) \o " " \o timestamp_str, "%Y " \o fmt)
    ELSE strptime(Replace(Replace(timestamp_str, "T", " "), "Z", ""), fmt)

\* for fmt in formats: the first format that parses, <<>> when none does
parse_match(timestamp_str, current_year) ==
    LET ok == {k \in DOMAIN formats :
                   try_format(timestamp_str, formats[k], current_year) # <<>>}
    IN IF ok = {} THEN <<>>
       ELSE try_format(timestamp_str, formats[SetMin(ok)], current_year)

\* The parsed timestamp of the line, <<>> when no pattern both matches and parses.
find_timestamp(line, current_year) ==
    LET ok == {p \in DOMAIN timestamp_patterns :
                   /\ search_group(line, p) # ""
                   /\ parse_match(search_group(line, p), current_year) # <<>>}
    IN IF ok = {} THEN <<>>
       ELSE parse_match(search_group(line, SetMin(ok)), current_year)

\* The calendar years of the clock readings.
KnownYears == {now.year : now \in NowInputs}

\* find_timestamp of each known line.
TimestampTable ==
    [l \in KnownMessages |-> [y \in KnownYears |-> find_timestamp(l, y)]]

\* now stands for the value datetime.now() returns during the call.  The
\* timestamp of a known line is looked up, any other is parsed.
extract_timestamp(line, now) ==
    LET found == IF line \in KnownMessages /\ now.year \in KnownYears
                 THEN TimestampTable[line][now.year]
                 ELSE find_timestamp(line, now.year)
    IN IF found = <<>> THEN now ELSE found[1]

----------------------------------------------------------------------------
(* parse_log_entries                                                       *)

\* The clock reading n microseconds after now (the clock inputs leave room
\* in the microsecond field).
PlusMicroseconds(now, n) == [now EXCEPT !.microsecond = @ + n]

\* The body of the loop for the line at position i (1-based), not blank.
parse_line(i, line, now) ==
    LET level == extract_log_level(line)
    IN [line |-> i,
        timestamp |-> extract_timestamp(line, now),
        level |-> level,
        message |-> line,
        severity |-> calculate_severity(level, line)]

RECURSIVE parse_from(_, _, _, _, _)
\* The entries the loop appends for the lines at positions lo..hi, in order:
\* those of the first half of the lines, then those of the second.
parse_from(lines, lo, hi, now, tick) ==
    IF lo > hi THEN <<>>
    ELSE IF lo = hi
    THEN LET line == Strip(lines[lo])
         IN IF line = "" THEN <<>>
            ELSE <<parse_line(lo, line, PlusMicroseconds(now, tick * (lo - 1)))>>
    ELSE LET mid == (lo + hi) \div 2
         IN parse_from(lines, lo, mid, now, tick)
            \o parse_from(lines, mid + 1, hi, now, tick)

\* parse_log_entries numbering the entries as it appends them.
parse_log_entries_renumbered(lines, now, tick) ==
    LET es == parse_from(lines, 1, Len(lines), now, tick)
    IN [k \in 1..Len(es) |-> [es[k] EXCEPT !.line = k]]

\* lines is content.split('\n'); the clock reads now at the first line and
\* advances by tick microseconds per line.
parse_log_entries(lines, now, tick) == parse_from(lines, 1, Len(lines), now, tick)

----------------------------------------------------------------------------
(* analyze_patterns                                                        *)

\* patterns[error_type] += 1 on a defaultdict(int), kept in insertion order
count_pattern(counts, error_type) ==
    IF \E i \in DOMAIN counts : counts[i].type = error_type
    THEN [i \in DOMAIN counts |->
             IF counts[i].type = error_type
             THEN [counts[i] EXCEPT !.count = @ + 1]
             ELSE counts[i]]
    ELSE Append(counts, [type |-> error_type, count |-> 1])

\* {**entry, 'type': error_type}
with_type(entry, error_type) ==
    [line |-> entry.line, timestamp |-> entry.timestamp, level |-> entry.level,
     message |-> entry.message, severity |-> entry.severity, type |-> error_type]

\* analyze_patterns' test counting every entry.
counts_as_error_always(entry) == entry.severity >= 0

\* if entry['severity'] > 0: ... if not is_success:
counts_as_error(entry) == entry.severity > 0 /\ ~is_success(entry.message)

RECURSIVE errors_from(_, _, _)
\* The errors the loop appends for the entries at positions lo..hi, in
\* order.
errors_from(es, lo, hi) ==
    IF lo > hi THEN <<>>
    ELSE IF lo = hi
    THEN IF counts_as_error(es[lo])
         THEN <<with_type(es[lo], classify_error(es[lo].message))>>
         ELSE <<>>
    ELSE LET mid == (lo + hi) \div 2
         IN errors_from(es, lo, mid) \o errors_from(es, mid + 1, hi)

RECURSIVE patterns_from(_, _, _)
\* The counting of the loop, which counts an entry when it appends it to
\* errors, under the type it appends it with.
patterns_from(errs, i, counts) ==
    IF i > Len(errs) THEN counts
    ELSE patterns_from(errs, i + 1, count_pattern(counts, errs[i].type))

\* Returns [errors, patterns]; patterns is the dict as its items in order.
analyze_patterns(es) ==
    LET errs == errors_from(es, 1, Len(es))
    IN [errors |-> errs, patterns |-> patterns_from(errs, 1, <<>>)]

----------------------------------------------------------------------------
(* build_causal_chains                                                     *)

EntryKey(e) == TimeKey(e.timestamp)

\* The place of the element at position i in a stable ascending sort of the
\* elements whose keys are keys: behind every element of a smaller key and
\* behind those of its own key that stand in front of it.
place_by_key(keys, i) ==
    1 + Cardinality({j \in DOMAIN keys :
                        \/ KeyLess(keys[j], keys[i])
                        \/ keys[j] = keys[i] /\ j < i})

\* sorted(entries, key=lambda x: x['timestamp']): a new list.  (SubSeq
\* makes the sequence of a function on 1..n.)
sort_by_timestamp(es) ==
    LET n == Len(es)
        keys == SubSeq([i \in 1..n |-> EntryKey(es[i])], 1, n)
        place == SubSeq([i \in 1..n |-> place_by_key(keys, i)], 1, n)
    IN SubSeq([p \in 1..n |-> es[CHOOSE i \in 1..n : place[i] = p]], 1, n)

\* if entry['severity'] >= 6 with every effect event accepted.
effect_severity_any(entry) == entry.severity >= 0

\* if entry['severity'] >= 6
effect_severity(entry) == entry.severity >= 60

\* entry['timestamp'] > current_time + time_window
beyond_window(entry, current_time) ==
    KeyLess(KeyPlusMinutes(current_time, time_window), EntryKey(entry))

RECURSIVE scan_effects(_, _, _, _, _)
\* The inner loop over sorted_entries from position k on; current_time is a
\* TimeKey, sequence the causal_sequence so far.  Of the entries later than
\* current_time the loop breaks at the first beyond the window and appends
\* the first effect event in front of it, which moves current_time; the
\* others it passes over.
scan_effects(sorted, k, current_time, sequence, pattern) ==
    LET later == {j \in k..Len(sorted) :
                     ~KeyLessEq(EntryKey(sorted[j]), current_time)}
        breaks == {j \in later : beyond_window(sorted[j], current_time)}
        appends == {j \in later \ breaks :
                       /\ mentions_any(sorted[j].message, pattern.effects)
                       /\ effect_severity(sorted[j])}
    IN IF appends = {} THEN sequence
       ELSE LET j == SetMin(appends)
            IN IF \E b \in breaks : b < j THEN sequence
               ELSE scan_effects(sorted, j + 1, EntryKey(sorted[j]),
                                 Append(sequence, sorted[j]), pattern)

\* causal_sequence for one trigger event
causal_sequence(sorted, trigger, pattern) ==
    scan_effects(sorted, 1, EntryKey(trigger), <<trigger>>, pattern)

\* 0.7 + n * 0.05 as the doubles add up.  A confidence is written in units
\* of 0.0001; the sum for n = 2 and n = 4 is the double one unit in the last
\* place below 0.8 and 0.9 (0.7999999999999999, 0.8999999999999999), written
\* one less than the decimal; for every other n it is the double nearest the
\* decimal sum.
chain_confidence_sum(n) ==
    IF n \in {2, 4} THEN 7000 + n * 500 - 1 ELSE 7000 + n * 500

\* min(0.95, 0.7 + len(causal_sequence) * 0.05)
chain_confidence(n) == Min2(9500, chain_confidence_sum(n))

\* 'Critical' if max_severity >= 9 else 'High' if max_severity >= 7 else 'Medium'
chain_severity(sequence) ==
    LET max_severity == SetMax({sequence[i].severity : i \in DOMAIN sequence})
    IN IF max_severity >= 90 THEN "Critical"
       ELSE IF max_severity >= 70 THEN "High" ELSE "Medium"

\* The dict appended to chains.
make_chain(pattern, sequence) ==
    [title |-> Title(Replace(pattern.name, "_", " ")) \o " Failure Chain",
     chain_text |-> Join(" → ", SubSeq(pattern.chain, 1,
                                       Min2(Len(sequence), Len(pattern.chain)))),
     events |-> sequence,
     confidence |-> chain_confidence(Len(sequence)),
     severity |-> chain_severity(sequence)]

\* if len(causal_sequence) >= 2 with single-event sequences let through
long_enough_one(sequence) == Len(sequence) >= 1

\* if len(causal_sequence) >= 2
long_enough(sequence) == Len(sequence) >= 2

RECURSIVE chains_from(_, _, _, _)
\* The chains of one pattern for the entries at positions lo..hi of the
\* sorted list: one per trigger event, in sorted order, that found a
\* meaningful sequence.
chains_from(sorted, lo, hi, pattern) ==
    IF lo > hi THEN <<>>
    ELSE IF lo = hi
    THEN LET sequence == IF mentions_any(sorted[lo].message, pattern.triggers)
                         THEN causal_sequence(sorted, sorted[lo], pattern)
                         ELSE <<>>
         IN IF long_enough(sequence) THEN <<make_chain(pattern, sequence)>> ELSE <<>>
    ELSE LET mid == (lo + hi) \div 2
         IN chains_from(sorted, lo, mid, pattern)
            \o chains_from(sorted, mid + 1, hi, pattern)

RECURSIVE chains_of_patterns(_, _)
chains_of_patterns(sorted, p) ==
    IF p > Len(causal_patterns) THEN <<>>
    ELSE chains_from(sorted, 1, Len(sorted), causal_patterns[p])
         \o chains_of_patterns(sorted, p + 1)

\* errs is the parameter errors, which the function does not read.
build_causal_chains(es, errs) ==
    LET sorted == sort_by_timestamp(es)
    IN chains_of_patterns(sorted, 1)

----------------------------------------------------------------------------
(* identify_root_causes                                                    *)

RECURSIVE promoted_from(_, _)
\* if len(chain['events']) >= 3: root_causes.append({...})
promoted_from(chs, i) ==
    IF i > Len(chs) THEN <<>>
    ELSE (IF Len(chs[i].events) >= 3
          THEN << [title |-> chs[i].title,
                   causal_chain |-> <<chs[i].chain_text>>,
                   confidence |-> chs[i].confidence,
                   count |-> Len(chs[i].events),
                   severity |-> chs[i].severity] >>
          ELSE <<>>)
         \o promoted_from(chs, i + 1)

\* min(0.95, 0.5 + count * 0.1) without the cap
pattern_confidence_uncapped(count) == 5000 + count * 1000

\* min(0.95, 0.5 + count * 0.1), in units of 0.0001; below the cap the sum
\* of the doubles is the double nearest the decimal sum.
pattern_confidence(count) == Min2(9500, 5000 + count * 1000)

\* 'High' if count >= 5 else 'Medium' if count >= 2 else 'Low'
pattern_severity(count) ==
    IF count >= 5 THEN "High" ELSE IF count >= 2 THEN "Medium" ELSE "Low"

RECURSIVE pattern_causes_from(_, _)
\* for error_type, count in patterns.items(): if count >= 1: ...
\* A root cause without the key 'causal_chain' has causal_chain = <<>>.
pattern_causes_from(counts, i) ==
    IF i > Len(counts) THEN <<>>
    ELSE (IF counts[i].count >= 1
          THEN << [title |-> counts[i].type \o " System Issue",
                   causal_chain |-> <<>>,
                   confidence |-> pattern_confidence(counts[i].count),
                   count |-> counts[i].count,
                   severity |-> pattern_severity(counts[i].count)] >>
          ELSE <<>>)
         \o pattern_causes_from(counts, i + 1)

\* The pattern tier entered only when no chain was promoted.
pattern_tier_if_no_chain(promoted, counts) ==
    IF promoted = <<>> THEN pattern_causes_from(counts, 1) ELSE <<>>

\* The pattern tier with the threshold count >= 3.
pattern_tier_from_three(promoted, counts) ==
    pattern_causes_from(SelectSeq(counts, LAMBDA c : c.count >= 3), 1)

\* The pattern tier: it does not look at what was promoted.
pattern_tier(promoted, counts) == pattern_causes_from(counts, 1)

\* if not root_causes and errors: the severity-distribution fallback
severity_fallback(errs) ==
    LET high == SelectSeq(errs, LAMBDA e : e.severity >= 80)
        medium == SelectSeq(errs, LAMBDA e : e.severity >= 60 /\ e.severity < 80)
    IN (IF high # <<>>
        THEN << [title |-> "Critical System Events Detected",
                 causal_chain |-> <<>>, confidence |-> 8000,
                 count |-> Len(high), severity |-> "Critical"] >>
        ELSE <<>>)
       \o
       (IF medium # <<>>
        THEN << [title |-> "System Performance Issues",
                 causal_chain |-> <<>>, confidence |-> 7000,
                 count |-> Len(medium), severity |-> "Medium"] >>
        ELSE <<>>)

\* elif total_entries > 100
large_log_threshold == 100

\* The error-rate fallback without its report on a large log.
error_rate_fallback_errors_only(es, errs) ==
    IF Len(es) > 0 /\ Len(errs) * 100 > 5 * Len(es)
    THEN << [title |-> "High Error Rate Detected",
             causal_chain |-> <<>>, confidence |-> 6000,
             count |-> Len(errs), severity |-> "Medium"] >>
    ELSE <<>>

\* if not root_causes: the error-rate fallback.  error_rate > 5 with
\* error_rate = total_errors / total_entries * 100 is total_errors * 100 >
\* 5 * total_entries.
error_rate_fallback(es, errs) ==
    LET total_errors == Len(errs)
        total_entries == Len(es)
    IN IF total_entries > 0 /\ total_errors * 100 > 5 * total_entries
       THEN << [title |-> "High Error Rate Detected",
                causal_chain |-> <<>>, confidence |-> 6000,
                count |-> total_errors, severity |-> "Medium"] >>
       ELSE IF total_entries > large_log_threshold
       THEN << [title |-> "System Operating Normally",
                causal_chain |-> <<>>, confidence |-> 9000,
                count |-> total_errors, severity |-> "Low"] >>
       ELSE <<>>

\* The sort key (x['confidence'], x['count']) compared as tuples.
RankKeyLess(a, b) ==
    \/ a.confidence < b.confidence
    \/ a.confidence = b.confidence /\ a.count < b.count

\* The sort key reduced to the confidence.
RankBeforeOrTie_confidence_only(a, b) == a.confidence >= b.confidence

\* a's key is not smaller than b's: a stays in front of b.
RankBeforeOrTie(a, b) == ~RankKeyLess(a, b)

\* One step of a stable descending sort: rc goes behind every element whose
\* key is not smaller.
insert_by_rank(sorted, rc) ==
    LET n == Cardinality({i \in DOMAIN sorted : RankBeforeOrTie(sorted[i], rc)})
    IN SubSeq(sorted, 1, n) \o <<rc>> \o SubSeq(sorted, n + 1, Len(sorted))

RECURSIVE rank_from(_, _, _)
rank_from(rcs, i, sorted) ==
    IF i > Len(rcs) THEN sorted
    ELSE rank_from(rcs, i + 1, insert_by_rank(sorted, rcs[i]))

\* sorted(root_causes, key=lambda x: (x['confidence'], x['count']), reverse=True)
rank(rcs) == rank_from(rcs, 1, <<>>)

\* root_causes before the final sort, chs being the chains built.
collect_root_causes(chs, es, errs, counts) ==
    LET promoted == promoted_from(chs, 1)
        tiers12 == promoted \o pattern_tier(promoted, counts)
        tiers123 == IF tiers12 = <<>> /\ errs # <<>>
                    THEN severity_fallback(errs) ELSE tiers12
    IN IF tiers123 = <<>> THEN error_rate_fallback(es, errs) ELSE tiers123

identify_root_causes(es, errs, counts) ==
    rank(collect_root_causes(build_causal_chains(es, errs), es, errs, counts))

----------------------------------------------------------------------------
(* detect_log_type, select_optimal_model                                   *)

\* sum(1 for keyword in keywords if keyword in content_lower); a keyword
\* holds no line break, so it occurs in the content when it occurs in a line
keyword_score(lines, keywords) ==
    Cardinality({k \in DOMAIN keywords :
                    \E i \in DOMAIN lines : mentions(lines[i], keywords[k])})

\* max(scores, key=scores.get) if max(scores.values()) > 2 else 'general':
\* the first type of the dict with the largest score
detect_log_type(lines) ==
    LET score == [t \in DOMAIN log_type_keywords |->
                     keyword_score(lines, log_type_keywords[t].keywords)]
        best == SetMax({score[t] : t \in DOMAIN score})
        first == SetMin({t \in DOMAIN score : score[t] = best})
    IN IF best > 2 THEN log_type_keywords[first].type ELSE "general"

\* self.optimal_models.get(log_type, self.optimal_models['general'])
recommended_models(type) ==
    IF type \in DOMAIN optimal_models THEN optimal_models[type]
    ELSE optimal_models["general"]

select_optimal_model(available, models, type) ==
    IF ~available \/ models = <<>> THEN "Rule-based"
    ELSE LET available_recommended ==
                 SelectSeq(recommended_models(type),
                           LAMBDA model : model \in Range(models))
         IN IF available_recommended # <<>> THEN available_recommended[1]
            ELSE models[1]

----------------------------------------------------------------------------
(* calculate_performance_metrics and the result of run_analysis            *)

\* A quotient of two counts, a float in the program, is written in units of
\* 0.001 and rounded to the nearest unit; the double the program computes
\* differs from the quotient by less than a millionth of a unit.
Thousandths(numerator, denominator) ==
    (2 * 1000 * numerator + denominator) \div (2 * denominator)

\* The if/elif chain with the test for 'high' at the limit of 'medium'.
severity_bucket_high_from_five(severity) ==
    IF severity >= 90 THEN "critical"
    ELSE IF severity >= 50 THEN "high"
    ELSE "low"

\* The bucket of the if/elif chain for one severity.
severity_bucket(severity) ==
    IF severity >= 90 THEN "critical"
    ELSE IF severity >= 70 THEN "high"
    ELSE IF severity >= 50 THEN "medium"
    ELSE "low"

severity_distribution(es) ==
    [b \in {"critical", "high", "medium", "low"} |->
        Cardinality({i \in DOMAIN es : severity_bucket(es[i].severity) = b})]

\* len([e for e in entries if e['severity'] >= 7])
error_count(es) == Cardinality({i \in DOMAIN es : es[i].severity >= 70})

\* (error_count / len(entries)) * 1000 if entries else 0
errors_per_1000_lines(es) ==
    IF es # <<>> THEN Thousandths(error_count(es) * 1000, Len(es)) ELSE 0

\* len(entries) / (time.time() - self.start_time) raises ZeroDivisionError
\* when the two readings of the clock are the same; start is -1 when the
\* object has no attribute start_time.
metrics_raise(start, now) == start # -1 /\ now = start

\* The dict returned when the call does not raise.
calculate_performance_metrics(es, start, now) ==
    [lines_per_second |-> IF start # -1 THEN Thousandths(Len(es), now - start) ELSE 0,
     errors_per_1000_lines |-> errors_per_1000_lines(es),
     severity_distribution |-> severity_distribution(es)]

\* len([line for line in content.split('\n') if line.strip()])
total_lines(lines) == Cardinality({i \in DOMAIN lines : Strip(lines[i]) # ""})

RECURSIVE text_length(_, _)
\* len(content): the characters of the lines and the line breaks between
\* them
text_length(lines, i) ==
    IF i > Len(lines) THEN 0
    ELSE Len(lines[i]) + (IF i < Len(lines) THEN 1 ELSE 0) + text_length(lines, i + 1)

\* [e for e in entries if 5 <= e.get('severity', 0) < 7]
warnings_of(es) == SelectSeq(es, LAMBDA e : 50 <= e.severity /\ e.severity < 70)

\* Path(path).name: what follows the last separator
path_name(path) ==
    LET separators == {i \in 1..Len(path) : SubSeq(path, i, i) = "/"}
    IN IF separators = {} THEN path
       ELSE SubSeq(path, SetMax(separators) + 1, Len(path))

\* The dict stored in self.analysis_results; analysis_time is in the unit of
\* the clock.
compile_results(file, lines, mode, model, type, es, errs, counts, causes, metrics, start, now) ==
    [file_info |-> [name |-> path_name(file), size |-> text_length(lines, 1),
                    total_lines |-> total_lines(lines)],
     mode |-> mode,
     ai_model |-> model,
     log_type |-> type,
     entries |-> es,
     errors |-> errs,
     warnings |-> warnings_of(es),
     patterns |-> counts,
     root_causes |-> causes,
     performance_metrics |-> metrics,
     analysis_time |-> now - start]
----------------------------------------------------------------------------
(* The analysis run: parse_log_entries, analyze_patterns,                  *)
(* identify_root_causes, in the order run_analysis and the terminal test   *)
(* call them                                                               *)

\* The line is parsed and its timestamp is the clock's reading.
reads_clock(line) ==
    /\ Strip(line) # ""
    /\ \E now \in NowInputs : extract_timestamp(Strip(line), now) = now

\* The clock readings that tell the runs on lines apart: one reading when
\* no line of the text takes its timestamp from the clock.
ClockInputs(lines) ==
    IF \E i \in DOMAIN lines : reads_clock(lines[i]) THEN NowInputs
    ELSE {CHOOSE now \in NowInputs : TRUE}

\* The advances of the clock from line to line that tell the runs on lines
\* apart.
ClockTickInputs(lines) ==
    IF \E i \in DOMAIN lines : reads_clock(lines[i]) THEN TickInputs ELSE {0}

\* A log of one line more than the error-rate fallback's threshold, every
\* line a success.
LargeLog ==
    [i \in 1..(large_log_threshold + 1) |->
        "2024-01-01 10:05:00 INFO Operation completed successfully"]

\* Logs around the threshold: of as many entries as the threshold and of one
\* more, without an error and with one, and one whose lines are one more
\* than the threshold but whose entries are not.
LargeLogInputs ==
    { LargeLog,
      SubSeq(LargeLog, 1, large_log_threshold),
      [LargeLog EXCEPT ![large_log_threshold + 1] =
          "2024-01-01 10:00:00 ERROR VRM voltage out of range"],
      [LargeLog EXCEPT ![2] = "   "] }

Init ==
    /\ pc = "start"
    /\ content \in ContentInputs \cup LargeLogInputs
    /\ clock \in ClockInputs(content)
    /\ clock_tick \in ClockTickInputs(content)
    /\ entries = <<>>
    /\ errors = <<>>
    /\ patterns = <<>>
    /\ sorted_entries = <<>>
    /\ chains = <<>>
    /\ root_causes = <<>>
    /\ NoSeverityCall /\ NoLineCall /\ UiAsConstructed /\ AnalyzerAsConstructed /\ NoRun

\* parse_log_entries reading, in the mode 'fast', the first line only.
ParseEntries_first_line_when_fast ==
    /\ pc = "start"
    /\ entries' = parse_log_entries(IF analysis_mode = "fast"
                                    THEN SubSeq(content, 1, 1) ELSE content,
                                    clock, clock_tick)
    /\ pc' = "parsed"
    /\ UNCHANGED <<content, clock, clock_tick, errors, patterns, sorted_entries,
                   chains, root_causes>>
    /\ UNCHANGED <<sev_vars, ui_vars, cls_vars, analyzer_vars, run_vars>>

\* entries = self.parse_log_entries(content)
ParseEntries ==
    /\ pc = "start"
    /\ entries' = parse_log_entries(content, clock, clock_tick)
    /\ pc' = "parsed"
    /\ UNCHANGED <<content, clock, clock_tick, errors, patterns, sorted_entries,
                   chains, root_causes>>
    /\ UNCHANGED <<sev_vars, ui_vars, cls_vars, analyzer_vars, run_vars>>

\* analyze_patterns counting on in a dict the object keeps from run to run.
AnalyzePatterns_on_kept_counts ==
    /\ pc = "parsed"
    /\ LET result == analyze_patterns(entries)
           kept == IF analysis_results = <<>> THEN <<>>
                   ELSE analysis_results[1].patterns
       IN errors' = result.errors /\ patterns' = patterns_from(result.errors, 1, kept)
    /\ pc' = "analyzed"
    /\ UNCHANGED <<content, clock, clock_tick, entries, sorted_entries, chains,
                   root_causes>>
    /\ UNCHANGED <<sev_vars, ui_vars, cls_vars, analyzer_vars, run_vars>>

\* errors, patterns = self.analyze_patterns(entries)
AnalyzePatterns ==
    /\ pc = "parsed"
    /\ LET result == analyze_patterns(entries)
       IN errors' = result.errors /\ patterns' = result.patterns
    /\ pc' = "analyzed"
    /\ UNCHANGED <<content, clock, clock_tick, entries, sorted_entries, chains,
                   root_causes>>
    /\ UNCHANGED <<sev_vars, ui_vars, cls_vars, analyzer_vars, run_vars>>

\* identify_root_causes with build_causal_chains sorting the list it is
\* handed (entries.sort) and not a copy.
IdentifyRootCauses_sorting_in_place ==
    /\ pc = "analyzed"
    /\ sorted_entries' = sort_by_timestamp(entries)
    /\ entries' = sort_by_timestamp(entries)
    /\ chains' = build_causal_chains(entries, errors)
    /\ root_causes' = identify_root_causes(entries, errors, patterns)
    /\ pc' = "ranked"
    /\ UNCHANGED <<content, clock, clock_tick, errors, patterns>>
    /\ UNCHANGED <<sev_vars, ui_vars, cls_vars, analyzer_vars, run_vars>>

\* root_causes = self.identify_root_causes(entries, errors, patterns)
IdentifyRootCauses ==
    /\ pc = "analyzed"
    /\ sorted_entries' = sort_by_timestamp(entries)
    /\ chains' = build_causal_chains(entries, errors)
    /\ root_causes' = identify_root_causes(entries, errors, patterns)
    /\ pc' = "ranked"
    /\ UNCHANGED <<content, clock, clock_tick, entries, errors, patterns>>
    /\ UNCHANGED <<sev_vars, ui_vars, cls_vars, analyzer_vars, run_vars>>

Next == ParseEntries \/ AnalyzePatterns \/ IdentifyRootCauses

Spec == Init /\ [][Next]_vars

----------------------------------------------------------------------------
(* calculate_severity as a function of its two arguments                   *)

SevInit ==
    /\ pc = "severity"
    /\ sev_level \in LevelInputs
    /\ sev_message \in MessageInputs
    /\ sev_result = -1
    /\ content = <<>>
    /\ clock \in {CHOOSE now \in NowInputs : TRUE}
    /\ clock_tick = 0
    /\ entries = <<>>
    /\ errors = <<>>
    /\ patterns = <<>>
    /\ sorted_entries = <<>>
    /\ chains = <<>>
    /\ root_causes = <<>>
    /\ NoLineCall /\ UiAsConstructed /\ AnalyzerAsConstructed /\ NoRun

CalculateSeverity ==
    /\ pc = "severity"
    /\ sev_result' = calculate_severity(sev_level, sev_message)
    /\ pc' = "scored"
    /\ UNCHANGED <<sev_level, sev_message>>
    /\ UNCHANGED <<step_vars, cls_vars, analyzer_vars, run_vars, ui_vars>>

SevNext == CalculateSeverity

SpecSeverity == SevInit /\ [][SevNext]_vars

----------------------------------------------------------------------------
(* identify_root_causes as a function of its three arguments, which a      *)
(* caller may pass without having them from analyze_patterns               *)

RankLines ==
    { "2024-01-01 10:00:00 ERROR VRM voltage out of range",
      "2024-01-01 10:01:00 CRITICAL thermal shutdown triggered",
      "2024-01-01 10:30:00 ERROR cpu hang, system reset",
      "2024-01-01 10:00:00 [WARN] memory ecc correction" }

RankClock == CHOOSE now \in NowInputs : now.year = 2026

RankEntriesInputs ==
    {parse_log_entries(c, RankClock, 0)
     : c \in SeqsUpTo(RankLines, MaxLines) \cup {LargeLog}}

\* The counts a category is given: none, one, the 'Medium' range, and both
\* sides of the cap of the confidence.
PatternCountInputs == {0, 1, 2, 5, 6}

\* Dicts over two categories.
PatternInputs ==
    {<<>>}
    \cup {<<[type |-> "Hardware", count |-> c]>> : c \in PatternCountInputs}
    \cup {<<[type |-> "Hardware", count |-> c], [type |-> "Network", count |-> d]>>
          : c \in PatternCountInputs, d \in PatternCountInputs}

\* The errors handed over: those analyze_patterns returns for the entries,
\* or the first few of them.
ErrorsInputs(es) ==
    {SubSeq(analyze_patterns(es).errors, 1, k)
     : k \in 0..Len(analyze_patterns(es).errors)}

RankInit ==
    /\ pc = "rank"
    /\ entries \in RankEntriesInputs
    /\ errors \in ErrorsInputs(entries)
    /\ patterns \in PatternInputs \cup {analyze_patterns(entries).patterns}
    /\ content = <<>>
    /\ clock = RankClock
    /\ clock_tick = 0
    /\ sorted_entries = <<>>
    /\ chains = <<>>
    /\ root_causes = <<>>
    /\ NoSeverityCall /\ NoLineCall /\ UiAsConstructed /\ AnalyzerAsConstructed /\ NoRun

RankRootCauses ==
    /\ pc = "rank"
    /\ sorted_entries' = sort_by_timestamp(entries)
    /\ chains' = build_causal_chains(entries, errors)
    /\ root_causes' = identify_root_causes(entries, errors, patterns)
    /\ pc' = "ranked"
    /\ UNCHANGED <<content, clock, clock_tick, entries, errors, patterns>>
    /\ UNCHANGED <<sev_vars, ui_vars, cls_vars, analyzer_vars, run_vars>>

RankNext == RankRootCauses

SpecRank == RankInit /\ [][RankNext]_vars


----------------------------------------------------------------------------
(* run_analysis on an analyzer object, run after run on the selected file  *)

\* The values of the three radio buttons.
Modes == {"fast", "smart", "thorough"}

\* What check_ai_status finds: no model server, or one that lists models.
AiInputs ==
    { [available |-> FALSE, models |-> <<>>],
      [available |-> TRUE, models |-> <<"phi3:medium", "codellama:13b">>] }

\* The runs of one behaviour, counted: a first run and a run on the object
\* the first has used.
RunNumbers == {1, 2}

\* What the clock of time.time() advances between two readings.
TimeStepInputs == {0, 1}

\* The file the user has selected before the first run.
LogPath == "/var/log/system.log"

\* The object after select_file has returned the path of a file of this text.
run_init(text) ==
    /\ pc = "idle"
    /\ selected_file = LogPath
    /\ content = text
    /\ files = (LogPath :> content)
    /\ opened_file = ""
    /\ live_threads = 0
    /\ caught = [r \in RunNumbers |-> <<>>]
    /\ raised = [r \in RunNumbers |-> <<>>]
    /\ after_queue = <<>>
    /\ dialogs = <<>>
    /\ callback_errors = 0
    /\ analyze_btn = "normal"
    /\ progress_shown = FALSE
    /\ exported = <<>>
    /\ clock = RankClock
    /\ clock_tick \in ClockTickInputs(content)
    /\ entries = <<>>
    /\ errors = <<>>
    /\ patterns = <<>>
    /\ sorted_entries = <<>>
    /\ chains = <<>>
    /\ root_causes = <<>>
    /\ analysis_results = <<>>
    /\ \E ai \in AiInputs : ai_available = ai.available /\ ai_models = ai.models
    /\ selected_ai_model = "Rule-based"
    /\ analysis_running = FALSE
    /\ analysis_mode = "smart"
    /\ start_time = -1
    /\ NoSeverityCall /\ NoLineCall /\ NoRun

RunInit == \E text \in RunContentInputs : run_init(text)

\* The user picks another radio button between two runs.
SelectMode ==
    /\ pc = "idle"
    /\ runs > 0
    /\ runs + 1 \in RunNumbers
    /\ \E mode \in Modes \ {analysis_mode} : analysis_mode' = mode
    /\ UNCHANGED <<selected_file, analysis_results, ai_available, ai_models,
                   selected_ai_model, analysis_running, start_time>>
    /\ UNCHANGED <<pc, step_vars, sev_vars, ui_vars, cls_vars, run_vars>>

\* What start_analysis does with a file selected and no analysis running:
\* a thread of run_analysis starts with its own locals.  (pc follows one
\* thread; a thread started beside a live one would only be counted.)
start_thread ==
    /\ analysis_running' = TRUE
    /\ progress_shown' = TRUE
    /\ analyze_btn' = "disabled"
    /\ live_threads' = live_threads + 1
    /\ IF live_threads = 0
       THEN /\ entries' = <<>>
            /\ errors' = <<>>
            /\ patterns' = <<>>
            /\ sorted_entries' = <<>>
            /\ chains' = <<>>
            /\ root_causes' = <<>>
            /\ log_type' = ""
            /\ performance_metrics' = <<>>
            /\ pc' = "reading"
       ELSE UNCHANGED <<entries, errors, patterns, sorted_entries, chains,
                        root_causes, log_type, performance_metrics, pc>>
    /\ UNCHANGED <<content, clock, clock_tick, walltime, run_start, runs, first_results>>
    /\ UNCHANGED <<selected_file, analysis_results, ai_available, ai_models,
                   selected_ai_model, analysis_mode, start_time>>
    /\ UNCHANGED <<files, opened_file, caught, raised, after_queue, dialogs,
                   callback_errors, exported>>
    /\ UNCHANGED <<sev_vars, cls_vars>>

\* start_analysis without 'if self.analysis_running: return'.
StartAnalysis_while_running ==
    /\ selected_file # ""
    /\ runs + 1 \in RunNumbers
    /\ start_thread

\* if not self.selected_file: ... return
\* if self.analysis_running: return
StartAnalysis ==
    /\ selected_file # ""
    /\ ~analysis_running
    /\ runs + 1 \in RunNumbers
    /\ start_thread

\* str(e) of what open() raises for a path that is None or names no file.
open_error(path) ==
    IF path = "" THEN "expected str, bytes or os.PathLike object, not NoneType"
    ELSE "[Errno 2] No such file or directory: '" \o path \o "'"

\* update_progress(0.1, ...), which sets start_time when the object has
\* none, and the reading of the file.
ReadFile ==
    /\ pc = "reading"
    /\ run_start' = walltime
    /\ start_time' = IF start_time = -1 THEN walltime ELSE start_time
    /\ IF selected_file \in DOMAIN files
       THEN /\ opened_file' = selected_file
            /\ content' = files[selected_file]
            /\ pc' = "detecting"
            /\ UNCHANGED <<caught, raised>>
       ELSE /\ caught' = [caught EXCEPT ![runs + 1] = <<open_error(selected_file)>>]
            /\ raised' = [raised EXCEPT ![runs + 1] = <<open_error(selected_file)>>]
            /\ pc' = "raised"
            /\ UNCHANGED <<opened_file, content>>
    /\ UNCHANGED <<selected_file, analysis_results, ai_available, ai_models,
                   selected_ai_model, analysis_running, analysis_mode>>
    /\ UNCHANGED <<clock, clock_tick, entries, errors, patterns, sorted_entries,
                   chains, root_causes>>
    /\ UNCHANGED <<files, live_threads, after_queue, dialogs, callback_errors,
                   analyze_btn, progress_shown, exported>>
    /\ UNCHANGED <<log_type, performance_metrics, walltime, runs, first_results>>
    /\ UNCHANGED <<sev_vars, cls_vars>>

\* log_type = self.detect_log_type(content)
\* self.selected_ai_model = self.select_optimal_model(log_type)
DetectLogType ==
    /\ pc = "detecting"
    /\ log_type' = detect_log_type(content)
    /\ selected_ai_model' = select_optimal_model(ai_available, ai_models, log_type')
    /\ pc' = "start"
    /\ UNCHANGED <<selected_file, analysis_results, ai_available, ai_models,
                   analysis_running, analysis_mode, start_time>>
    /\ UNCHANGED <<performance_metrics, walltime, run_start, runs, first_results>>
    /\ UNCHANGED <<step_vars, sev_vars, ui_vars, cls_vars>>

\* performance_metrics = self.calculate_performance_metrics(entries), which
\* raises when the clock has not moved since start_time was set.
CalculateMetrics ==
    /\ pc = "ranked"
    /\ analysis_running
    /\ \E step \in TimeStepInputs : walltime' = walltime + step
    /\ IF metrics_raise(start_time, walltime')
       THEN /\ caught' = [caught EXCEPT ![runs + 1] = <<"float division by zero">>]
            /\ raised' = [raised EXCEPT ![runs + 1] = <<"float division by zero">>]
            /\ pc' = "raised"
            /\ UNCHANGED performance_metrics
       ELSE /\ performance_metrics' =
                  <<calculate_performance_metrics(entries, start_time, walltime')>>
            /\ pc' = "measured"
            /\ UNCHANGED <<caught, raised>>
    /\ UNCHANGED <<log_type, run_start, runs, first_results>>
    /\ UNCHANGED <<files, opened_file, live_threads, after_queue, dialogs,
                   callback_errors, analyze_btn, progress_shown, exported>>
    /\ UNCHANGED <<step_vars, sev_vars, cls_vars, analyzer_vars>>

\* self.analysis_results = {...}, where Path(None) raises before anything
\* is stored, and self.root.after(100, self.display_results)
CompileResults ==
    /\ pc = "measured"
    /\ \E step \in TimeStepInputs : walltime' = walltime + step
    /\ IF selected_file = ""
       THEN /\ caught' = [caught EXCEPT ![runs + 1] = <<open_error(selected_file)>>]
            /\ raised' = [raised EXCEPT ![runs + 1] = <<open_error(selected_file)>>]
            /\ pc' = "raised"
            /\ UNCHANGED <<analysis_results, after_queue>>
       ELSE /\ analysis_results' =
                  <<compile_results(selected_file, content, analysis_mode,
                                    selected_ai_model, log_type, entries, errors,
                                    patterns, root_causes, performance_metrics[1],
                                    start_time, walltime')>>
            /\ after_queue' = Append(after_queue, [callback |-> "display_results",
                                                   run |-> runs + 1])
            /\ pc' = "compiled"
            /\ UNCHANGED <<caught, raised>>
    /\ UNCHANGED <<selected_file, ai_available, ai_models, selected_ai_model,
                   analysis_running, analysis_mode, start_time>>
    /\ UNCHANGED <<log_type, performance_metrics, run_start, runs, first_results>>
    /\ UNCHANGED <<files, opened_file, live_threads, dialogs, callback_errors,
                   analyze_btn, progress_shown, exported>>
    /\ UNCHANGED <<step_vars, sev_vars, cls_vars>>

\* except Exception as e: self.root.after(0, lambda: messagebox.showerror(...))
HandleException ==
    /\ pc = "raised"
    /\ after_queue' = Append(after_queue, [callback |-> "showerror", run |-> runs + 1])
    /\ pc' = "handled"
    /\ UNCHANGED <<files, opened_file, live_threads, caught, raised, dialogs,
                   callback_errors, analyze_btn, progress_shown, exported>>
    /\ UNCHANGED <<step_vars, sev_vars, cls_vars, analyzer_vars, run_vars>>

\* The end of the except clause, which unbinds e, and finally:
\* self.analysis_running = False, with which the thread ends.
EndRun ==
    /\ pc \in {"compiled", "handled"}
    /\ caught' = [caught EXCEPT ![runs + 1] = <<>>]
    /\ analysis_running' = FALSE
    /\ live_threads' = live_threads - 1
    /\ runs' = runs + 1
    /\ first_results' = IF runs = 0 THEN <<analysis_results>> ELSE first_results
    /\ pc' = "idle"
    /\ UNCHANGED <<selected_file, analysis_results, ai_available, ai_models,
                   selected_ai_model, analysis_mode, start_time>>
    /\ UNCHANGED <<log_type, performance_metrics, walltime, run_start>>
    /\ UNCHANGED <<files, opened_file, raised, after_queue, dialogs,
                   callback_errors, analyze_btn, progress_shown, exported>>
    /\ UNCHANGED <<step_vars, sev_vars, cls_vars>>

RunNext ==
    \/ SelectMode \/ StartAnalysis \/ ReadFile \/ DetectLogType
    \/ ParseEntries \/ AnalyzePatterns \/ IdentifyRootCauses
    \/ CalculateMetrics \/ CompileResults \/ HandleException \/ EndRun

SpecRun == RunInit /\ [][RunNext]_vars

----------------------------------------------------------------------------
(* extract_log_level and classify_error as functions of the line           *)

LineInit ==
    /\ pc = "line"
    /\ cls_line \in LineTextInputs
    /\ cls_timestamp = <<>>
    /\ cls_level = ""
    /\ cls_type = ""
    /\ content = <<>>
    /\ clock \in {CHOOSE now \in NowInputs : TRUE}
    /\ clock_tick = 0
    /\ entries = <<>>
    /\ errors = <<>>
    /\ patterns = <<>>
    /\ sorted_entries = <<>>
    /\ chains = <<>>
    /\ root_causes = <<>>
    /\ NoSeverityCall /\ UiAsConstructed /\ AnalyzerAsConstructed /\ NoRun

ExtractLogLevel ==
    /\ pc = "line"
    /\ cls_level' = extract_log_level(cls_line)
    /\ pc' = "levelled"
    /\ UNCHANGED <<cls_line, cls_timestamp, cls_type>>
    /\ UNCHANGED <<step_vars, sev_vars, ui_vars, analyzer_vars, run_vars>>

ClassifyError ==
    /\ pc = "levelled"
    /\ cls_type' = classify_error(cls_line)
    /\ pc' = "classified"
    /\ UNCHANGED <<cls_line, cls_timestamp, cls_level>>
    /\ UNCHANGED <<step_vars, sev_vars, ui_vars, analyzer_vars, run_vars>>

LineNext == ExtractLogLevel \/ ClassifyError

SpecLine == LineInit /\ [][LineNext]_vars

----------------------------------------------------------------------------
(* extract_timestamp as a function of the line and the clock               *)

TimestampInit ==
    /\ pc = "line"
    /\ cls_line \in TimestampLineInputs
    /\ cls_timestamp = <<>>
    /\ cls_level = ""
    /\ cls_type = ""
    /\ content = <<>>
    /\ clock \in NowInputs
    /\ clock_tick = 0
    /\ entries = <<>>
    /\ errors = <<>>
    /\ patterns = <<>>
    /\ sorted_entries = <<>>
    /\ chains = <<>>
    /\ root_causes = <<>>
    /\ NoSeverityCall /\ UiAsConstructed /\ AnalyzerAsConstructed /\ NoRun

ExtractTimestamp ==
    /\ pc = "line"
    /\ cls_timestamp' = <<extract_timestamp(cls_line, clock)>>
    /\ pc' = "stamped"
    /\ UNCHANGED <<cls_line, cls_level, cls_type>>
    /\ UNCHANGED <<step_vars, sev_vars, ui_vars, analyzer_vars, run_vars>>

TimestampNext == ExtractTimestamp

SpecTimestamp == TimestampInit /\ [][TimestampNext]_vars

----------------------------------------------------------------------------
(* The application: the handlers of the main loop beside the thread of     *)
(* run_analysis                                                            *)

\* The most message boxes start_analysis shows for a missing selection.
MaxDialogs == 1

\* The files the user can select: one with an error line, one without.
AppFiles ==
    ("/var/log/system.log" :> <<"2024-01-01 10:00:00 ERROR VRM voltage out of range">>)
    @@ ("/tmp/build.log" :> <<"  docker build: pipeline deploy retry ", "">>)

AppInit ==
    /\ pc = "idle"
    /\ content = <<>>
    /\ clock = RankClock
    /\ clock_tick = 0
    /\ entries = <<>>
    /\ errors = <<>>
    /\ patterns = <<>>
    /\ sorted_entries = <<>>
    /\ chains = <<>>
    /\ root_causes = <<>>
    /\ files = AppFiles
    /\ opened_file = ""
    /\ live_threads = 0
    /\ caught = [r \in RunNumbers |-> <<>>]
    /\ raised = [r \in RunNumbers |-> <<>>]
    /\ after_queue = <<>>
    /\ dialogs = <<>>
    /\ callback_errors = 0
    /\ analyze_btn = "disabled"
    /\ progress_shown = FALSE
    /\ exported = <<>>
    /\ NoSeverityCall /\ NoLineCall /\ AnalyzerAsConstructed /\ NoRun

\* select_file, the dialog answered with a path.
SelectFile ==
    /\ \E path \in DOMAIN files : selected_file' = path
    /\ analyze_btn' = "normal"
    /\ UNCHANGED <<analysis_results, ai_available, ai_models, selected_ai_model,
                   analysis_running, analysis_mode, start_time>>
    /\ UNCHANGED <<files, opened_file, live_threads, caught, raised, after_queue,
                   dialogs, callback_errors, progress_shown, exported>>
    /\ UNCHANGED <<pc, step_vars, sev_vars, cls_vars, run_vars>>

\* clear_file
ClearFile ==
    /\ selected_file' = ""
    /\ analyze_btn' = "disabled"
    /\ UNCHANGED <<analysis_results, ai_available, ai_models, selected_ai_model,
                   analysis_running, analysis_mode, start_time>>
    /\ UNCHANGED <<files, opened_file, live_threads, caught, raised, after_queue,
                   dialogs, callback_errors, progress_shown, exported>>
    /\ UNCHANGED <<pc, step_vars, sev_vars, cls_vars, run_vars>>

\* start_analysis without a file selected: a message box and nothing else.
StartAnalysisWithoutFile ==
    /\ selected_file = ""
    /\ Cardinality({i \in DOMAIN dialogs : dialogs[i].title = "Error"}) < MaxDialogs
    /\ dialogs' = Append(dialogs, [title |-> "Error",
                                   message |-> "Please select a log file first.",
                                   run |-> 0])
    /\ UNCHANGED <<files, opened_file, live_threads, caught, raised, after_queue,
                   callback_errors, analyze_btn, progress_shown, exported>>
    /\ UNCHANGED <<pc, step_vars, sev_vars, cls_vars, analyzer_vars, run_vars>>

\* The queue without its element at position i.
without(queue, i) == SubSeq(queue, 1, i - 1) \o SubSeq(queue, i + 1, Len(queue))

\* display_results, which returns at once when there are no results:
\* self.progress_frame.pack_forget()
\* self.analyze_btn.configure(state="normal")
display_results ==
    /\ IF analysis_results = <<>>
       THEN UNCHANGED <<progress_shown, analyze_btn>>
       ELSE progress_shown' = FALSE /\ analyze_btn' = "normal"
    /\ UNCHANGED <<dialogs, callback_errors>>

\* lambda: messagebox.showerror("Analysis Error", f"...{str(e)}"), with e
\* the variable of the run that scheduled it: a NameError when the except
\* clause has ended, which the main loop reports on stderr.
showerror(run) ==
    /\ IF caught[run] = <<>>
       THEN callback_errors' = callback_errors + 1 /\ UNCHANGED dialogs
       ELSE /\ dialogs' = Append(dialogs,
                              [title |-> "Analysis Error",
                               message |-> "Failed to analyze log file:\n"
                                           \o caught[run][1],
                               run |-> run])
            /\ UNCHANGED callback_errors
    /\ UNCHANGED <<progress_shown, analyze_btn>>

\* The main loop runs a callback that root.after was handed.
RunCallback ==
    /\ \E i \in DOMAIN after_queue :
          /\ after_queue' = without(after_queue, i)
          /\ IF after_queue[i].callback = "display_results"
             THEN display_results
             ELSE showerror(after_queue[i].run)
    /\ UNCHANGED <<files, opened_file, live_threads, caught, raised, exported>>
    /\ UNCHANGED <<pc, step_vars, sev_vars, cls_vars, analyzer_vars, run_vars>>

\* A step of the thread of run_analysis.
ThreadStep ==
    \/ ReadFile \/ DetectLogType \/ ParseEntries \/ AnalyzePatterns
    \/ IdentifyRootCauses \/ CalculateMetrics \/ CompileResults
    \/ HandleException \/ EndRun

AppNext ==
    \/ SelectFile \/ ClearFile \/ StartAnalysis \/ StartAnalysisWithoutFile
    \/ RunCallback \/ ThreadStep

SpecApp == AppInit /\ [][AppNext]_vars

\* The thread runs on while it lives, and the main loop runs the callbacks
\* it was handed.
SpecAppFair ==
    AppInit /\ [][AppNext]_vars /\ WF_vars(ThreadStep) /\ WF_vars(RunCallback)
----------------------------------------------------------------------------
(* export_results("json") after runs of run_analysis                       *)

\* Calls of export_results in one behaviour.
MaxExports == 2

\* The value is a datetime object (a str is written [str |-> text]).
is_datetime(value) == "year" \in DOMAIN value

\* str(n).zfill(width)
zfill(n, width) ==
    LET digits == Str(n)
    IN SubSeq("000000", 1, width - Len(digits)) \o digits

\* datetime.isoformat(): YYYY-MM-DDTHH:MM:SS, and .ffffff when the
\* microsecond is not 0
isoformat(dt) ==
    zfill(dt.year, 4) \o "-" \o zfill(dt.month, 2) \o "-" \o zfill(dt.day, 2)
    \o "T" \o zfill(dt.hour, 2) \o ":" \o zfill(dt.minute, 2) \o ":"
    \o zfill(dt.second, 2)
    \o (IF dt.microsecond = 0 THEN "" ELSE "." \o zfill(dt.microsecond, 6))

\* for entry in export_data['entries']:
\*     entry['timestamp'] = entry['timestamp'].isoformat()
\* The loop stops at the first entry whose timestamp is a str, which has no
\* isoformat; the entries before it keep the text they were given.
convert_entries(es) ==
    LET strs == {i \in 1..Len(es) : ~is_datetime(es[i].timestamp)}
        stop == IF strs = {} THEN Len(es) + 1 ELSE SetMin(strs)
    IN [entries |-> [i \in 1..Len(es) |->
                        IF i < stop
                        THEN [es[i] EXCEPT !.timestamp = [str |-> isoformat(@)]]
                        ELSE es[i]],
        raised |-> IF strs = {} THEN <<>>
                   ELSE <<"'str' object has no attribute 'isoformat'">>]

\* export_data = dict(self.analysis_results) copies the top level only: the
\* loop writes into the entry dicts of self.analysis_results. The elements
\* of 'warnings' are those same dicts; the elements of 'errors' are the
\* copies made by analyze_patterns, which the loop does not touch.
converted_results(results) ==
    LET es == convert_entries(results.entries).entries
    IN [results EXCEPT !.entries = SubSeq(es, 1, Len(es)),
                       !.warnings = warnings_of(SubSeq(es, 1, Len(es)))]

\* json.dump(export_data, f, indent=2): a datetime anywhere in the data
\* raises TypeError after the text before it has been written.
json_dump(data) ==
    IF \E list \in {data.entries, data.errors, data.warnings} :
           \E i \in 1..Len(list) : is_datetime(list[i].timestamp)
    THEN [document |-> <<>>,
          raised |-> <<"Object of type datetime is not JSON serializable">>]
    ELSE [document |-> <<data>>, raised |-> <<>>]

\* export_results('json') with results to export: the save dialog, the
\* conversion, the file, and the message box of the outcome. exported logs
\* the call: the results it was given, the path chosen, whether the file was
\* opened for writing, the document in it when json.dump has returned (a
\* file that json.dump left unfinished has none), and the message box.
ExportJson ==
    /\ analysis_results # <<>>
    /\ Len(exported) < MaxExports
    /\ \E file_path \in SavePathInputs :
        IF file_path = ""
        THEN /\ exported' = Append(exported,
                    [given |-> analysis_results, file_path |-> "",
                     opened |-> FALSE, document |-> <<>>, box |-> <<>>])
             /\ UNCHANGED <<analysis_results, dialogs>>
        ELSE LET loop == convert_entries(analysis_results[1].entries)
                 data == converted_results(analysis_results[1])
                 dump == json_dump(data)
                 error == IF loop.raised # <<>> THEN loop.raised ELSE dump.raised
                 box == IF error = <<>>
                        THEN [title |-> "Success",
                              message |-> "Analysis exported to " \o file_path,
                              run |-> 0]
                        ELSE [title |-> "Export Error",
                              message |-> "Failed to export JSON:\n" \o error[1],
                              run |-> 0]
             IN /\ analysis_results' = <<data>>
                /\ exported' = Append(exported,
                       [given |-> analysis_results, file_path |-> file_path,
                        opened |-> loop.raised = <<>>,
                        document |-> IF error = <<>> THEN dump.document ELSE <<>>,
                        box |-> <<box>>])
                /\ dialogs' = Append(dialogs, box)
    /\ UNCHANGED <<selected_file, ai_available, ai_models, selected_ai_model,
                   analysis_running, analysis_mode, start_time>>
    /\ UNCHANGED <<files, opened_file, live_threads, caught, raised, after_queue,
                   callback_errors, analyze_btn, progress_shown>>
    /\ UNCHANGED <<pc, step_vars, sev_vars, cls_vars, run_vars>>

\* export_results without results: a message box and nothing else.
ExportWithoutResults ==
    /\ analysis_results = <<>>
    /\ Len(exported) < MaxExports
    /\ LET box == [title |-> "Error", message |-> "No analysis results to export.",
                   run |-> 0]
       IN /\ exported' = Append(exported,
                 [given |-> analysis_results, file_path |-> "", opened |-> FALSE,
                  document |-> <<>>, box |-> <<box>>])
          /\ dialogs' = Append(dialogs, box)
    /\ UNCHANGED <<files, opened_file, live_threads, caught, raised, after_queue,
                   callback_errors, analyze_btn, progress_shown>>
    /\ UNCHANGED <<pc, step_vars, sev_vars, cls_vars, analyzer_vars, run_vars>>

ExportInit == \E text \in ExportContentInputs : run_init(text)

ExportNext == RunNext \/ ExportJson \/ ExportWithoutResults

SpecExport == ExportInit /\ [][ExportNext]_vars

----------------------------------------------------------------------------
(* Properties of calculate_severity, stated for SpecSeverity                *)

\* The lowercased message contains a phrase of the success list, searched
\* directly in the text.
HasSuccessPhrase(message) ==
    \E i \in DOMAIN success_indicators :
        Contains(Lower(message), success_indicators[i])

\* C1: for every level, also one outside the enumeration, and every
\* message, calculate_severity returns a value in [0, 10], and the value is
\* 0 exactly when the lowercased message contains a success phrase: neither
\* the level nor a failure keyword raises it then.
C1_SeverityRangeAndSuccessOverride ==
    pc = "scored" =>
        /\ sev_result >= 0
        /\ sev_result <= 100
        /\ (sev_result = 0) <=> HasSuccessPhrase(sev_message)

\* A level outside the enumeration, a message with a success phrase and
\* the failure keyword 'panic', scored 0.
C1_Witness ==
    /\ pc = "scored"
    /\ sev_level = "NOTICE"
    /\ sev_message = "kernel panic: all systems operational"
    /\ sev_result = 0

\* The base score of each level of the enumeration.
ListedBase ==
    [CRITICAL |-> 10, FATAL |-> 10, ERROR |-> 7, WARNING |-> 5, WARN |-> 5,
     INFO |-> 3, DEBUG |-> 1, TRACE |-> 1]

\* The failure keywords in the order the specification lists them
\* (multipliers in tenths).
ListedOrder ==
    << [keyword |-> "panic", multiplier |-> 20],
       [keyword |-> "crash", multiplier |-> 18],
       [keyword |-> "failed", multiplier |-> 17],
       [keyword |-> "failure", multiplier |-> 17],
       [keyword |-> "segfault", multiplier |-> 19],
       [keyword |-> "unreachable", multiplier |-> 15],
       [keyword |-> "denied", multiplier |-> 15],
       [keyword |-> "timeout", multiplier |-> 14],
       [keyword |-> "authentication", multiplier |-> 14],
       [keyword |-> "refused", multiplier |-> 14],
       [keyword |-> "permission", multiplier |-> 13],
       [keyword |-> "disconnected", multiplier |-> 13],
       [keyword |-> "lost", multiplier |-> 13] >>

\* The failure keywords in the order calculate_severity tries them.
TriedOrder ==
    << [keyword |-> "panic", multiplier |-> 20],
       [keyword |-> "crash", multiplier |-> 18],
       [keyword |-> "failed", multiplier |-> 17],
       [keyword |-> "failure", multiplier |-> 17],
       [keyword |-> "segfault", multiplier |-> 19],
       [keyword |-> "timeout", multiplier |-> 14],
       [keyword |-> "denied", multiplier |-> 15],
       [keyword |-> "authentication", multiplier |-> 14],
       [keyword |-> "permission", multiplier |-> 13],
       [keyword |-> "refused", multiplier |-> 14],
       [keyword |-> "unreachable", multiplier |-> 15],
       [keyword |-> "disconnected", multiplier |-> 13],
       [keyword |-> "lost", multiplier |-> 13] >>

\* The positions of order whose keyword the lowercased message contains.
KeywordHits(order, message) ==
    {i \in DOMAIN order : Contains(Lower(message), order[i].keyword)}

\* The multiplier (in tenths) of the first keyword of order the message
\* contains, 1.0 if it contains none.
FirstMultiplier(order, message) ==
    IF KeywordHits(order, message) = {} THEN 10
    ELSE order[SetMin(KeywordHits(order, message))].multiplier

\* min(10, base(level) * m) in tenths, m taken by order.
ExpectedSeverity(order) ==
    Min2(100, ListedBase[sev_level] * FirstMultiplier(order, sev_message))

\* A level of the enumeration and a message without a success phrase have
\* been scored.
ScoredFailure ==
    /\ pc = "scored"
    /\ sev_level \in DOMAIN ListedBase
    /\ ~HasSuccessPhrase(sev_message)

\* C3 (as amended): for a message without a success phrase, the score is
\* min(10, base(level) * m), m being the multiplier of the first failure
\* keyword in the message when the keywords are tried in the order panic,
\* crash, failed, failure, segfault, timeout, denied, authentication,
\* permission, refused, unreachable, disconnected, lost, or 1 if none occurs.
C3_FirstKeywordInTriedOrder ==
    ScoredFailure => sev_result = ExpectedSeverity(TriedOrder)

\* C3 (as stated): the same with the keywords tried in the order the
\* specification lists them, so that a message with 'unreachable' and
\* 'timeout' gets the multiplier 1.5.
C3_FirstKeywordInListedOrder ==
    ScoredFailure => sev_result = ExpectedSeverity(ListedOrder)

\* A WARNING with 'unreachable' and 'timeout' scored 5 * 1.4 = 7.0.
C3_Witness ==
    /\ pc = "scored"
    /\ sev_level = "WARNING"
    /\ sev_message = "host unreachable after timeout"
    /\ sev_result = 70

\* base(level), 3 for a level outside the enumeration.
BaseOrDefault(level) ==
    IF level \in DOMAIN ListedBase THEN ListedBase[level] ELSE 3

\* C4: multipliers never compound.  A message without a success phrase that
\* contains several failure keywords scores min(10, base(level) * m) for the
\* multiplier m of one of them; with 'failed' and 'timeout' and neither
\* 'panic' nor 'crash' it scores min(10, base(level) * 1.7).
C4_SingleMultiplier ==
    (pc = "scored" /\ ~HasSuccessPhrase(sev_message)) =>
        /\ Cardinality(KeywordHits(TriedOrder, sev_message)) >= 2 =>
              \E i \in KeywordHits(TriedOrder, sev_message) :
                  sev_result = Min2(100, BaseOrDefault(sev_level) * TriedOrder[i].multiplier)
        /\ ( /\ Contains(Lower(sev_message), "failed")
             /\ Contains(Lower(sev_message), "timeout")
             /\ ~Contains(Lower(sev_message), "panic")
             /\ ~Contains(Lower(sev_message), "crash") ) =>
              sev_result = Min2(100, BaseOrDefault(sev_level) * 17)

\* An INFO message with 'failed' and 'timeout' scored 3 * 1.7 = 5.1, not
\* 3 * 1.7 * 1.4.
C4_Witness ==
    /\ pc = "scored"
    /\ sev_level = "INFO"
    /\ sev_message = "request failed after timeout"
    /\ sev_result = 51

----------------------------------------------------------------------------
(* Properties of the analysis run, stated for Spec                         *)

\* The labels classify_error can return.
Categories ==
    {classifications[i].category : i \in DOMAIN classifications}
    \cup {"Application", "Warning", "General"}

\* An element of errors without its type label.
WithoutType(e) ==
    [line |-> e.line, timestamp |-> e.timestamp, level |-> e.level,
     message |-> e.message, severity |-> e.severity]

\* The entries with severity > 0 and no success phrase, in entry order.
EntriesThatAreErrors ==
    SelectSeq(entries, LAMBDA e : e.severity > 0 /\ ~is_success(e.message))

\* PatternCounts[category], 0 for a category the dict does not hold.
PatternCount(category) ==
    IF \E i \in DOMAIN patterns : patterns[i].type = category
    THEN (CHOOSE p \in Range(patterns) : p.type = category).count
    ELSE 0

\* C2: for entries produced by parse_log_entries, errors holds exactly the
\* entries with severity > 0 and no success phrase, each once and in entry
\* order, each with one type label; no error's message contains 'completed
\* successfully'; and PatternCounts[c] is the number of errors of type c for
\* every category c, the dict holding each category once.
C2_ErrorsAndPatternCounts ==
    pc \in {"analyzed", "ranked"} =>
        /\ Len(errors) = Len(EntriesThatAreErrors)
        /\ \A i \in DOMAIN errors :
              /\ WithoutType(errors[i]) = EntriesThatAreErrors[i]
              /\ errors[i].type \in Categories
              /\ ~is_success(errors[i].message)
              /\ ~mentions(errors[i].message, "completed successfully")
        /\ \A i, j \in DOMAIN patterns :
              patterns[i].type = patterns[j].type => i = j
        /\ \A i \in DOMAIN patterns : patterns[i].type \in Categories
        /\ \A c \in Categories :
              PatternCount(c) = Cardinality({i \in DOMAIN errors : errors[i].type = c})

\* Three entries, one of them a success line that is left out of errors,
\* the two others errors of two categories.
C2_Witness ==
    /\ pc = "analyzed"
    /\ Len(entries) = 3
    /\ \E i \in DOMAIN entries :
          /\ mentions(entries[i].message, "completed successfully")
          /\ entries[i].severity = 0
    /\ Len(errors) = 2
    /\ Len(patterns) = 2

\* What a promoted chain hands to its root cause.
PromotedFields(chain) ==
    [causal_chain |-> <<chain.chain_text>>, confidence |-> chain.confidence,
     count |-> Len(chain.events), severity |-> chain.severity]

\* The same fields of a root cause.
ChainFields(rc) ==
    [causal_chain |-> rc.causal_chain, confidence |-> rc.confidence,
     count |-> rc.count, severity |-> rc.severity]

\* The number of positions of s whose element is mapped to r.
Occurrences(s, F(_), r) == Cardinality({i \in DOMAIN s : F(s[i]) = r})

\* C6: every chain has at least 2 events; the chains with at least 3
\* events and the root causes that have a causal_chain correspond one to
\* one, the root cause carrying the chain's chain_text, confidence and
\* severity and count = number of events; so no chain of 2 events is
\* promoted and every root cause with a causal_chain has count >= 3.
C6_ChainLengthAndPromotion ==
    pc = "ranked" =>
        LET long == SelectSeq(chains, LAMBDA c : Len(c.events) >= 3)
            promoted == SelectSeq(root_causes, LAMBDA rc : rc.causal_chain # <<>>)
        IN /\ \A i \in DOMAIN chains : Len(chains[i].events) >= 2
           /\ Len(long) = Len(promoted)
           /\ \A i \in DOMAIN long :
                 Occurrences(long, PromotedFields, PromotedFields(long[i]))
                     = Occurrences(promoted, ChainFields, PromotedFields(long[i]))
           /\ \A i \in DOMAIN promoted : promoted[i].count >= 3

\* A chain of 2 events beside a chain of 3: one root cause with a
\* causal_chain.
C6_Witness ==
    /\ pc = "ranked"
    /\ \E i \in DOMAIN chains : Len(chains[i].events) = 2
    /\ \E i \in DOMAIN chains : Len(chains[i].events) = 3
    /\ Cardinality({i \in DOMAIN root_causes : root_causes[i].causal_chain # <<>>}) = 1

\* The pattern a chain was emitted for, by its title.
PatternOfChain(chain) ==
    CHOOSE p \in Range(causal_patterns) :
        chain.title = (CASE p.name = "power_cascade" -> "Power Cascade Failure Chain"
                         [] p.name = "thermal_cascade" -> "Thermal Cascade Failure Chain"
                         [] p.name = "memory_cascade" -> "Memory Cascade Failure Chain")

\* b is later than a and at most 30 minutes later.
WithinHalfHourAfter(a, b) ==
    /\ KeyLess(TimeKey(a), TimeKey(b))
    /\ KeyLessEq(TimeKey(b), KeyPlusMinutes(TimeKey(a), 30))

\* C7: in every chain, events[0] contains a trigger keyword of the chain's
\* pattern; every later event contains an effect keyword of the pattern and
\* has severity >= 6; and every later event is later than the event before
\* it in the chain and at most 30 minutes later.
C7_TriggerThenEffectsInWindow ==
    pc = "ranked" =>
        \A i \in DOMAIN chains :
            LET events == chains[i].events
                pattern == PatternOfChain(chains[i])
            IN /\ mentions_any(events[1].message, pattern.triggers)
               /\ \A k \in 2..Len(events) :
                     /\ mentions_any(events[k].message, pattern.effects)
                     /\ events[k].severity >= 60
                     /\ WithinHalfHourAfter(events[k - 1].timestamp, events[k].timestamp)

\* A chain whose third event is more than 30 minutes after its trigger.
C7_Witness ==
    /\ pc = "ranked"
    /\ \E i \in DOMAIN chains :
          /\ Len(chains[i].events) >= 3
          /\ KeyLess(KeyPlusMinutes(TimeKey(chains[i].events[1].timestamp), 30),
                     TimeKey(chains[i].events[3].timestamp))

\* min(0.95, 0.7 + 0.05 * n) in the reals, in units of 0.0001.
ChainConfidenceInReals(n) == Min2(9500, 7000 + 500 * n)

\* 'Critical' from a maximum severity of 9, 'High' from 7, else 'Medium'.
LabelOfMaxSeverity(events) ==
    IF \E k \in DOMAIN events : events[k].severity >= 90 THEN "Critical"
    ELSE IF \E k \in DOMAIN events : events[k].severity >= 70 THEN "High"
    ELSE "Medium"

\* C8: a chain of n events has the confidence min(0.95, 0.7 + 0.05 * n),
\* hence within [0.8, 0.95], non-decreasing in n and 0.95 from n = 5 on; its
\* severity is 'Critical' if the maximum severity of its events, trigger
\* included, is >= 9, 'High' if >= 7, 'Medium' otherwise.
C8_ChainConfidenceInReals ==
    pc = "ranked" =>
        /\ \A i \in DOMAIN chains :
              LET n == Len(chains[i].events)
              IN /\ chains[i].confidence = ChainConfidenceInReals(n)
                 /\ chains[i].confidence >= 8000
                 /\ chains[i].confidence <= 9500
                 /\ n >= 5 => chains[i].confidence = 9500
                 /\ chains[i].severity = LabelOfMaxSeverity(chains[i].events)
        /\ \A i, j \in DOMAIN chains :
              Len(chains[i].events) <= Len(chains[j].events)
                  => chains[i].confidence <= chains[j].confidence

\* Chains of 2 and of 6 events in one run: the short one has the confidence
\* 0.7999999999999999, the long one 0.95 and 'Critical' by an effect.
C8_Witness ==
    /\ pc = "ranked"
    /\ \E i \in DOMAIN chains :
          /\ Len(chains[i].events) = 2
          /\ chains[i].confidence = 7999
    /\ \E i \in DOMAIN chains :
          /\ Len(chains[i].events) = 6
          /\ chains[i].confidence = 9500
          /\ chains[i].severity = "Critical"
          /\ chains[i].events[1].severity < 90

----------------------------------------------------------------------------
(* Properties of identify_root_causes, stated for SpecRank                 *)

\* C5: for every input, the returned list is sorted by (confidence
\* descending, count descending): of two adjacent elements a, b either
\* a.confidence > b.confidence, or the confidences are equal and
\* a.count >= b.count.
C5_SortedByConfidenceThenCount ==
    pc = "ranked" =>
        \A i \in 1..(Len(root_causes) - 1) :
            LET a == root_causes[i]
                b == root_causes[i + 1]
            IN \/ a.confidence > b.confidence
               \/ a.confidence = b.confidence /\ a.count >= b.count

\* Two categories at the cap of the confidence, the one with the larger
\* count handed over second and returned first.
C5_Witness ==
    /\ pc = "ranked"
    /\ patterns = <<[type |-> "Hardware", count |-> 5], [type |-> "Network", count |-> 6]>>
    /\ \E i \in 1..(Len(root_causes) - 1) :
          /\ root_causes[i].title = "Network System Issue"
          /\ root_causes[i + 1].title = "Hardware System Issue"
          /\ root_causes[i].confidence = root_causes[i + 1].confidence

\* C9: every root cause returned, from whichever tier, has a confidence in
\* [0, 0.95] and a severity label among Critical, High, Medium, Low.
C9_ConfidenceAndSeverityRange ==
    pc = "ranked" =>
        \A i \in DOMAIN root_causes :
            /\ root_causes[i].confidence >= 0
            /\ root_causes[i].confidence <= 9500
            /\ root_causes[i].severity \in {"Critical", "High", "Medium", "Low"}

\* A promoted chain beside a category whose count puts 0.5 + 0.1 * count
\* above the cap.
C9_Witness ==
    /\ pc = "ranked"
    /\ \E i \in DOMAIN root_causes : root_causes[i].causal_chain # <<>>
    /\ \E i \in DOMAIN root_causes :
          /\ root_causes[i].title = "Network System Issue"
          /\ root_causes[i].count = 6
          /\ root_causes[i].confidence = 9500

\* The positions of the root causes titled '<category> System Issue'.
IssuesOf(category) ==
    {i \in DOMAIN root_causes : root_causes[i].title = category \o " System Issue"}

\* C10: the pattern tier runs whether or not a chain was promoted: for a
\* category with PatternCounts[c] = n >= 1 the result holds exactly one
\* root cause titled '<c> System Issue', with count n, confidence
\* min(0.95, 0.5 + 0.1 * n) and severity 'High' if n >= 5, 'Medium' if
\* 2 <= n < 5, 'Low' if n = 1; for a category absent from PatternCounts it
\* holds none.
C10_PatternTierUnconditional ==
    pc = "ranked" =>
        \A c \in Categories \cup {patterns[i].type : i \in DOMAIN patterns} :
            LET n == PatternCount(c)
            IN /\ n >= 1 =>
                    /\ Cardinality(IssuesOf(c)) = 1
                    /\ \A i \in IssuesOf(c) :
                          /\ root_causes[i].count = n
                          /\ root_causes[i].confidence = Min2(9500, 5000 + 1000 * n)
                          /\ root_causes[i].severity =
                                (IF n >= 5 THEN "High"
                                 ELSE IF n >= 2 THEN "Medium" ELSE "Low")
               /\ (\A i \in DOMAIN patterns : patterns[i].type # c) => IssuesOf(c) = {}

\* A promoted chain, and beside it the root causes of a category counted 5
\* times and of one counted once.
C10_Witness ==
    /\ pc = "ranked"
    /\ \E i \in DOMAIN root_causes : root_causes[i].causal_chain # <<>>
    /\ \E i \in DOMAIN root_causes :
          /\ root_causes[i].title = "Hardware System Issue"
          /\ root_causes[i].count = 5
          /\ root_causes[i].severity = "High"
    /\ \E i \in DOMAIN root_causes :
          /\ root_causes[i].title = "Network System Issue"
          /\ root_causes[i].count = 1
          /\ root_causes[i].severity = "Low"


----------------------------------------------------------------------------
(* Properties of the analysis run on large logs, stated for Spec           *)

\* C11: when more than 100 entries were parsed, the ranked root causes are
\* not empty; when moreover analyze_patterns found no error, they are the one
\* root cause 'System Operating Normally' of confidence 0.9, severity 'Low'
\* and count 0.
C11_LargeLogReportsSomething ==
    (pc = "ranked" /\ Len(entries) > 100) =>
        /\ root_causes # <<>>
        /\ errors = <<>> =>
              /\ Len(root_causes) = 1
              /\ root_causes[1].title = "System Operating Normally"
              /\ root_causes[1].confidence = 9000
              /\ root_causes[1].severity = "Low"
              /\ root_causes[1].count = 0

C11_Witness ==
    /\ pc = "ranked"
    /\ Len(entries) > 100
    /\ errors = <<>>
    /\ Len(root_causes) = 1
    /\ root_causes[1].title = "System Operating Normally"

----------------------------------------------------------------------------
(* Properties of the analysis run and success messages, stated for Spec    *)

\* The lowercased message of the entry contains a phrase of the success
\* list.
HasSuccessMessage(e) == mentions_any(e.message, success_indicators)

\* The entry at position i of entries is one of the events of a chain.
IsChainEvent(i) ==
    \E c \in DOMAIN chains : \E k \in DOMAIN chains[c].events :
        chains[c].events[k] = entries[i]

\* C12: an entry whose message contains a success phrase is no element of
\* errors, is counted in no category of PatternCounts (a count is at most
\* the number of entries of that category without a success phrase), and is
\* no event, the trigger events[0] included, of any chain that
\* build_causal_chains returns, hence of none that is promoted.
C12_SuccessNeverEvidence ==
    /\ \A i \in DOMAIN entries :
          HasSuccessMessage(entries[i]) =>
              /\ entries[i].severity = 0
              /\ \A e \in DOMAIN errors : errors[e].line # entries[i].line
              /\ ~IsChainEvent(i)
    /\ \A p \in DOMAIN patterns :
          patterns[p].count <=
              Cardinality({i \in DOMAIN entries :
                              /\ ~HasSuccessMessage(entries[i])
                              /\ classify_error(entries[i].message) = patterns[p].type})

\* A message with a success phrase and the trigger keyword 'power' is
\* events[0] of a power-cascade chain.
C12_Witness ==
    /\ pc = "ranked"
    /\ \E i \in DOMAIN entries :
          /\ HasSuccessMessage(entries[i])
          /\ entries[i].severity = 0
          /\ \E c \in DOMAIN chains : chains[c].events[1] = entries[i]

\* The two lines of the scenario.
VrmThenThermal ==
    << "2024-01-01 10:00:00 ERROR VRM voltage out of range",
       "2024-01-01 10:01:00 CRITICAL thermal shutdown triggered" >>

\* What the scenario says of its run apart from the confidence of the chain.
VrmThenThermalOutcome ==
    /\ Len(errors) = 2
    /\ errors[1].type = "Hardware"
    /\ errors[2].type = "Hardware"
    /\ Len(chains) = 1
    /\ chains[1].title = "Power Cascade Failure Chain"
    /\ Len(chains[1].events) = 2
    /\ chains[1].events[1].line = 1
    /\ chains[1].events[2].line = 2
    /\ SetMax({chains[1].events[k].severity : k \in 1..2}) = 100
    /\ chains[1].severity = "Critical"
    /\ \A r \in DOMAIN root_causes :
          /\ root_causes[r].title # chains[1].title
          /\ root_causes[r].causal_chain = <<>>

\* C13: on the two lines 'ERROR VRM voltage out of range' at 10:00:00 and
\* 'CRITICAL thermal shutdown triggered' at 10:01:00, both entries are
\* classified 'Hardware', build_causal_chains returns the one power-cascade
\* chain of the two events with severity 'Critical' and confidence 0.8, and
\* no root cause is promoted from it.
C13_VrmThenThermalScenario ==
    (pc = "ranked" /\ content = VrmThenThermal) =>
        /\ VrmThenThermalOutcome
        /\ chains[1].confidence = 8000

\* The scenario has run; its chain has the confidence the doubles add up to.
C13_Witness ==
    /\ pc = "ranked"
    /\ content = VrmThenThermal
    /\ VrmThenThermalOutcome
    /\ chains[1].confidence = chain_confidence(2)

----------------------------------------------------------------------------
(* Properties of run_analysis on one analyzer object, stated for SpecRun   *)

\* The first run has stored its results and a second run is under way.
InSecondRun == runs = 1 /\ analysis_running /\ first_results[1] # <<>>

\* The results the first run stored.
FirstResults == first_results[1][1]

\* C14: a second run of parse_log_entries, analyze_patterns and
\* identify_root_causes on the same text, the clock giving the lines without
\* a timestamp the values it gave them in the first run, yields the
\* PatternCounts and the root causes, in their order, of the first run.
C14_SecondRunRepeatsFirst ==
    /\ (InSecondRun /\ pc \in {"analyzed", "ranked", "measured", "compiled"}) =>
          patterns = FirstResults.patterns
    /\ (InSecondRun /\ pc \in {"ranked", "measured", "compiled"}) =>
          root_causes = FirstResults.root_causes

\* The second run has ranked two root causes of one confidence and count,
\* from entries one of which has its timestamp from the clock.
C14_Witness ==
    /\ InSecondRun
    /\ pc = "ranked"
    /\ Len(root_causes) >= 2
    /\ root_causes[1].confidence = root_causes[2].confidence
    /\ root_causes[1].count = root_causes[2].count
    /\ \E i \in DOMAIN entries : entries[i].timestamp = PlusMicroseconds(clock, i - 1)

\* What a run on the lines yields when nothing but the lines and the clock
\* enters it.
AnalysisOf(lines, now, t) ==
    LET es == parse_log_entries(lines, now, t)
        result == analyze_patterns(es)
    IN [entries |-> es,
        errors |-> result.errors,
        patterns |-> result.patterns,
        root_causes |-> identify_root_causes(es, result.errors, result.patterns),
        severity_distribution |-> severity_distribution(es)]

\* The part of a stored result the mode, the log type and the model are
\* said not to enter.
AnalysisIn(results) ==
    [entries |-> results.entries,
     errors |-> results.errors,
     patterns |-> results.patterns,
     root_causes |-> results.root_causes,
     severity_distribution |-> results.performance_metrics.severity_distribution]

NonBlankLines == {i \in DOMAIN content : Strip(content[i]) # ""}

\* C16: parse_log_entries returns one entry for each line that is not empty
\* after trimming, in the order of the lines; the k-th entry has as 'line'
\* the position in the text, counted from 1 with the blank lines, of the
\* k-th such line, so that the line numbers increase strictly; and
\* file_info.total_lines is the number of entries.
C16_OneEntryPerNonBlankLine ==
    /\ pc \in {"parsed", "analyzed", "ranked", "measured", "compiled"} =>
          /\ Len(entries) = Cardinality(NonBlankLines)
          /\ \A k \in DOMAIN entries :
                /\ entries[k].line \in NonBlankLines
                /\ Cardinality({i \in NonBlankLines : i <= entries[k].line}) = k
                /\ entries[k].message = Strip(content[entries[k].line])
          /\ \A j, k \in DOMAIN entries : j < k => entries[j].line < entries[k].line
    /\ pc = "compiled" =>
          analysis_results[1].file_info.total_lines = Len(analysis_results[1].entries)

\* A text with a blank line in front of a line that is not blank: the entry
\* of the latter has a line number above its place in the list.
C16_Witness ==
    /\ pc = "compiled"
    /\ Len(content) = 5
    /\ Len(entries) = 4
    /\ entries[2].line = 3
    /\ analysis_results[1].file_info.total_lines = 4

----------------------------------------------------------------------------
(* Properties of extract_log_level and classify_error, stated for SpecLine *)

\* The levels in the order of the statement.
LevelOrder ==
    <<"CRITICAL", "FATAL", "ERROR", "WARNING", "WARN", "INFO", "DEBUG", "TRACE">>

\* The level occurs in the line as '[LEVEL]', ' LEVEL ' or 'LEVEL:', in
\* whatever case.
OccursAsTag(line, level) ==
    \E form \in {"[" \o level \o "]", " " \o level \o " ", level \o ":"} :
        Contains(Lower(line), Lower(form))

\* The line holds one of the words, in whatever case.
HoldsOneOf(line, words) == \E w \in words : Contains(Lower(line), w)

\* C17: extract_log_level returns one of the eight levels: the first, in
\* the order CRITICAL, FATAL, ERROR, WARNING, WARN, INFO, DEBUG, TRACE, that
\* occurs in the line as a tag; without a tag ERROR when the line holds
\* one of exception, error, failed, failure, crash, panic; else WARNING when
\* it holds one of warning, warn, deprecated, timeout, retry; else INFO.
C17_LevelByTagThenKeyword ==
    pc \in {"levelled", "classified"} =>
        LET tagged == {i \in DOMAIN LevelOrder : OccursAsTag(cls_line, LevelOrder[i])}
        IN /\ cls_level \in Range(LevelOrder)
           /\ cls_level =
                 IF tagged # {} THEN LevelOrder[SetMin(tagged)]
                 ELSE IF HoldsOneOf(cls_line, {"exception", "error", "failed",
                                               "failure", "crash", "panic"})
                 THEN "ERROR"
                 ELSE IF HoldsOneOf(cls_line, {"warning", "warn", "deprecated",
                                               "timeout", "retry"})
                 THEN "WARNING"
                 ELSE "INFO"

\* A line with the tag of INFO in front of the tag of ERROR has the level
\* ERROR.
C17_Witness ==
    /\ pc = "levelled"
    /\ cls_line = "[INFO] ERROR: memory leak in worker"
    /\ cls_level = "ERROR"

\* The categories in the order of the statement.
CategoryOrder ==
    <<"Hardware", "Firmware", "Database", "Network", "Memory", "Filesystem",
      "Authentication", "Security", "Performance", "Configuration", "Pipeline",
      "Testing">>

\* The keywords the table classifications lists for the category.
KeywordsOf(category) ==
    Range((CHOOSE c \in Range(classifications) : c.category = category).keywords)

\* C18: classify_error returns one label of the fifteen: the first category,
\* in the order Hardware, Firmware, Database, Network, Memory, Filesystem,
\* Authentication, Security, Performance, Configuration, Pipeline, Testing,
\* one of whose keywords occurs in the lowercased line; when none has one,
\* 'Application' for a generic error keyword, else 'Warning' for a generic
\* warning keyword, else 'General'.
C18_FirstCategoryThenGeneric ==
    pc = "classified" =>
        LET hit == {i \in DOMAIN CategoryOrder :
                       HoldsOneOf(cls_line, KeywordsOf(CategoryOrder[i]))}
        IN /\ cls_type \in Range(CategoryOrder) \cup {"Application", "Warning", "General"}
           /\ Cardinality(Range(CategoryOrder) \cup {"Application", "Warning", "General"}) = 15
           /\ cls_type =
                 IF hit # {} THEN CategoryOrder[SetMin(hit)]
                 ELSE IF HoldsOneOf(cls_line, Range(generic_error_words))
                 THEN "Application"
                 ELSE IF HoldsOneOf(cls_line, Range(generic_warning_words))
                 THEN "Warning"
                 ELSE "General"

\* A line with 'connection', a keyword of Database and of Network, is
\* labelled 'Database'.
C18_Witness ==
    /\ pc = "classified"
    /\ cls_line = "WARN: [FATAL] connection refused"
    /\ cls_type = "Database"

----------------------------------------------------------------------------
(* Properties of calculate_performance_metrics, stated for SpecRun         *)

\* The number of entries with lo <= severity < hi, severities in tenths.
EntriesInRange(lo, hi) ==
    Cardinality({i \in DOMAIN entries :
                    lo <= entries[i].severity /\ entries[i].severity < hi})

\* C19: the severity distribution counts the entries of severity >= 9 as
\* critical, of 7 <= severity < 9 as high, of 5 <= severity < 7 as medium and
\* of severity < 5 as low, the four counts adding up to the number of
\* entries; errors_per_1000_lines is 1000 * (critical + high) / number of
\* entries, to the nearest thousandth, and 0 when there is no entry.
C19_BucketsAndErrorRate ==
    pc \in {"measured", "compiled"} =>
        LET metrics == performance_metrics[1]
            counts == metrics.severity_distribution
            n == Len(entries)
            rate == metrics.errors_per_1000_lines
            numerator == 1000 * 1000 * (counts.critical + counts.high)
        IN /\ counts.critical = EntriesInRange(90, 101)
           /\ counts.high = EntriesInRange(70, 90)
           /\ counts.medium = EntriesInRange(50, 70)
           /\ counts.low = EntriesInRange(0, 50)
           /\ counts.critical + counts.high + counts.medium + counts.low = n
           /\ n = 0 => rate = 0
           /\ n > 0 => /\ 2 * (rate * n - numerator) <= n
                       /\ 2 * (numerator - rate * n) <= n

\* Four entries, one in each range: half of them count as errors.
C19_Witness ==
    /\ pc = "measured"
    /\ Len(entries) = 4
    /\ \A b \in {"critical", "high", "medium", "low"} :
          performance_metrics[1].severity_distribution[b] = 1
    /\ performance_metrics[1].errors_per_1000_lines = 500000

----------------------------------------------------------------------------
(* Properties of the steps of run_analysis, stated for SpecRun             *)

\* sorted holds the elements of es, each once, in ascending order of
\* timestamp, those of one timestamp in the order they have in es (entries
\* stand in es in the order of their line numbers).
IsStableSortOf(sorted, es) ==
    /\ Len(sorted) = Len(es)
    /\ \A i \in DOMAIN es : \E k \in DOMAIN sorted : sorted[k] = es[i]
    /\ \A j, k \in DOMAIN sorted :
          j < k =>
              /\ ~KeyLess(TimeKey(sorted[k].timestamp), TimeKey(sorted[j].timestamp))
              /\ sorted[j].timestamp = sorted[k].timestamp =>
                    sorted[j].line < sorted[k].line

\* C20: the steps after parse_log_entries (analyze_patterns,
\* identify_root_causes with its build_causal_chains,
\* calculate_performance_metrics, the storing of the results) leave the
\* list entries as it is, in order and in every field; identify_root_causes
\* leaves errors and patterns as they are; and the list build_causal_chains
\* sorts is another list, in which entries of one timestamp keep their order.
C20_StagesLeaveEarlierOutputs ==
    [][ /\ pc \in {"parsed", "analyzed", "ranked", "measured"} => entries' = entries
        /\ pc \in {"analyzed", "ranked", "measured"} =>
              errors' = errors /\ patterns' = patterns
        /\ pc = "analyzed" => IsStableSortOf(sorted_entries', entries')
        /\ pc = "measured" =>
              /\ analysis_results'[1].entries = entries
              /\ analysis_results'[1].errors = errors
              /\ analysis_results'[1].patterns = patterns ]_vars

\* Entries that are not in the order of their timestamps, two of them with
\* one timestamp, have been sorted and are where they were.
C20_Witness ==
    /\ pc = "ranked"
    /\ Len(entries) = 4
    /\ sorted_entries # entries
    /\ sorted_entries[1].timestamp = sorted_entries[2].timestamp
    /\ sorted_entries[1].line = 2
    /\ entries[1].line = 1

----------------------------------------------------------------------------
(* Properties of a run on an empty text, stated for SpecRun                *)

\* The text has no line or only lines of blanks.
BlankOnly(lines) == \A i \in DOMAIN lines : Strip(lines[i]) = ""


\* C21: on a text that is empty or holds only blank lines parse_log_entries
\* returns [], analyze_patterns ([], {}), identify_root_causes [], and
\* calculate_performance_metrics four zero counts and errors_per_1000_lines
\* 0; no stage raises.
C21_TotalOverEmptyInput ==
    (analysis_running /\ pc # "reading" /\ BlankOnly(content)) =>
        /\ pc \notin {"raised", "handled"}
        /\ pc \notin {"detecting", "start"} => entries = <<>>
        /\ pc \in {"analyzed", "ranked", "measured", "compiled"} =>
              errors = <<>> /\ patterns = <<>>
        /\ pc \in {"ranked", "measured", "compiled"} => root_causes = <<>>
        /\ pc \in {"measured", "compiled"} =>
              /\ \A b \in {"critical", "high", "medium", "low"} :
                    performance_metrics[1].severity_distribution[b] = 0
              /\ performance_metrics[1].errors_per_1000_lines = 0

\* The empty file is analysed while the clock stands still: the first three
\* stages have returned their empty results and the fourth has raised.
C21_Witness ==
    /\ content = <<"">>
    /\ pc = "raised"
    /\ entries = <<>> /\ errors = <<>> /\ patterns = <<>> /\ root_causes = <<>>
    /\ caught[runs + 1] = <<"float division by zero">>
    /\ walltime = start_time

----------------------------------------------------------------------------
(* Properties of the fallback tiers in the pipeline, stated for Spec       *)

FallbackTitles ==
    {"Critical System Events Detected", "System Performance Issues",
     "High Error Rate Detected"}

TitlesOf(causes) == {causes[i].title : i \in DOMAIN causes}

\* C27: with the errors and the pattern counts analyze_patterns made of the
\* entries, errors that are not empty come with counts that are not empty
\* and with a root cause of the pattern tier; the root causes of the
\* severity fallback and 'High Error Rate Detected' appear in no result;
\* the error-rate tier, which alone reports 'System Operating Normally' or
\* nothing, is reached only without errors (an error rate of 0).
C27_GuardedFallbacksNeverFire ==
    pc = "ranked" =>
        /\ errors # <<>> =>
              /\ patterns # <<>>
              /\ \A i \in DOMAIN patterns :
                    (patterns[i].type \o " System Issue") \in TitlesOf(root_causes)
        /\ TitlesOf(root_causes) \cap FallbackTitles = {}
        /\ (root_causes = <<>> \/ "System Operating Normally" \in TitlesOf(root_causes))
              => errors = <<>>

\* One error of severity 10 and of a type counted once: the pattern tier
\* reports it, where the severity fallback would if that tier were empty.
C27_Witness ==
    /\ pc = "ranked"
    /\ Len(errors) = 1
    /\ errors[1].severity = 100
    /\ patterns = << [type |-> errors[1].type, count |-> 1] >>
    /\ Len(root_causes) = 1
    /\ root_causes[1].title = errors[1].type \o " System Issue"

----------------------------------------------------------------------------
(* Properties of the run's timing, stated for SpecRun                      *)

\* The time the run in progress has taken so far.
ElapsedInThisRun == walltime - run_start

\* C24: in every run, the first on the object or a later one,
\* analysis_time is the time from the start of that run to the compiling
\* of the results, and lines_per_second the number of entries by the time
\* from the start of that run to the computing of the metrics.
C24_ElapsedFromThisRun ==
    /\ pc = "compiled" => analysis_results[1].analysis_time = ElapsedInThisRun
    /\ (pc = "measured" /\ ElapsedInThisRun > 0) =>
          performance_metrics[1].lines_per_second =
              Thousandths(Len(entries), ElapsedInThisRun)

\* A second run on the object has stored its results: analysis_time is the
\* time since the first run started, which is longer than the second run
\* has taken.
C24_Witness ==
    /\ runs = 1
    /\ pc = "compiled"
    /\ start_time < run_start
    /\ analysis_results[1].analysis_time = walltime - start_time
    /\ analysis_results[1].analysis_time > ElapsedInThisRun

----------------------------------------------------------------------------
(* Properties of extract_timestamp, stated for SpecTimestamp               *)

\* The date-time that IsoText(form) writes.
IsoWritten(form) ==
    [year |-> 2024, month |-> 3, day |-> 5, hour |-> 14, minute |-> 7,
     second |-> 9, microsecond |-> IF form.fraction = "" THEN 0 ELSE 250000]

\* The forms whose text occurs in the line.
FormsIn(line) == {form \in IsoForms : Contains(line, IsoText(form))}

\* The form of the timestamp in the line: the one with the longest text.
FormOf(line) ==
    CHOOSE form \in FormsIn(line) :
        \A other \in FormsIn(line) : Len(IsoText(other)) <= Len(IsoText(form))

\* C23: for a line that holds a timestamp of the ISO-8601-like family, in
\* any of its forms (date, 'T' or space, time, with or without a fraction
\* of three digits, with or without 'Z' or an offset), extract_timestamp
\* returns the date-time written in the line, not the reading of the clock;
\* it returns the reading of the clock only when no pattern matches and
\* parses.
C23_IsoFamilyParsed ==
    (pc = "stamped") =>
        /\ FormsIn(cls_line) # {} => cls_timestamp[1] = IsoWritten(FormOf(cls_line))
        /\ cls_timestamp[1] = clock =>
              find_timestamp(cls_line, clock.year) = <<>>

\* A line whose timestamp ends with an offset has been read: the first
\* pattern matches the offset too, no format parses it, and the value
\* returned is the reading of the clock.
C23_Witness ==
    /\ pc = "stamped"
    /\ cls_line = "2024-03-05T14:07:09.250+05:30 ERROR fan stopped"
    /\ cls_timestamp[1] = clock
    /\ cls_timestamp[1].year = 2026

\* The forms without an offset are read as written: with 'T' or a space,
\* with and without the fraction, with and without 'Z'.
C23_FormsWithoutOffsetParsed ==
    (pc = "stamped" /\ FormsIn(cls_line) # {}
        /\ FormOf(cls_line).suffix \in {"", "Z"}) =>
        cls_timestamp[1] = IsoWritten(FormOf(cls_line))

----------------------------------------------------------------------------
(* Properties of the application, stated for SpecApp                       *)

\* C28: whatever the order of the calls of start_analysis, select_file and
\* clear_file beside the thread of run_analysis, at most one such thread
\* lives, and analysis_running is TRUE exactly while one does: from the
\* call that started it until its finally clause has run.
C28_AtMostOneAnalysisThread ==
    /\ live_threads \in {0, 1}
    /\ analysis_running <=> live_threads = 1
    /\ pc # "idle" => live_threads = 1

\* While the thread is at work the user has selected another file, which
\* enables the button of start_analysis again.
C28_Witness ==
    /\ pc = "ranked"
    /\ live_threads = 1
    /\ analysis_running
    /\ selected_file \notin {"", opened_file}
    /\ analyze_btn = "normal"

\* The run numbered r has raised, has ended, and every callback it handed
\* to root.after has run.
FailedRunIsOver(r) ==
    /\ raised[r] # <<>>
    /\ r <= runs
    /\ \A i \in DOMAIN after_queue : after_queue[i].run # r

\* The message boxes that report the failure of the run numbered r.
FailureReports(r) ==
    {i \in DOMAIN dialogs : dialogs[i].title = "Analysis Error" /\ dialogs[i].run = r}

\* self.analysis_results as it was when the run in progress started.
ResultsBeforeRun == IF runs = 0 THEN <<>> ELSE first_results[1]

\* C22: a run of run_analysis in which a step raises ends with one report
\* of the failure to the user, a message box that shows the text of the
\* exception, the box being shown by a callback that runs after the except
\* clause has ended; the run stores no result, and it leaves
\* analysis_running FALSE.
C22_FailureReportedOnce ==
    /\ \A r \in RunNumbers :
          FailedRunIsOver(r) =>
              /\ Cardinality(FailureReports(r)) = 1
              /\ \A i \in FailureReports(r) :
                    dialogs[i].message = "Failed to analyze log file:\n" \o raised[r][1]
    /\ pc \in {"raised", "handled"} => analysis_results = ResultsBeforeRun
    /\ (pc = "idle" /\ runs > 0) => ~analysis_running

\* A run has raised and ended, its callback has run when the variable of
\* the except clause was unbound, and no message box was shown.
C22_Witness ==
    /\ FailedRunIsOver(1)
    /\ raised[1] = <<"float division by zero">>
    /\ FailureReports(1) = {}
    /\ callback_errors = 1
    /\ analysis_results = <<>>
    /\ ~analysis_running

\* What does hold of a failed run: no result is stored, analysis_running
\* is FALSE afterwards, and a message box that is shown shows the text.
C22_FailureLeavesNoResult ==
    /\ \A r \in RunNumbers : \A i \in FailureReports(r) :
          dialogs[i].message = "Failed to analyze log file:\n" \o raised[r][1]
    /\ \A r \in RunNumbers : Cardinality(FailureReports(r)) <= 1
    /\ pc \in {"raised", "handled"} => analysis_results = ResultsBeforeRun
    /\ (pc = "idle" /\ runs > 0) => ~analysis_running

\* C29: whatever select_file and clear_file do while run_analysis runs, a
\* run that has opened a file stores results, and file_info.name in them
\* is the name of the file it opened, whose text made the entries.
C29_FileInfoNamesAnalysedFile ==
    /\ pc = "compiled" =>
          analysis_results[1].file_info.name = path_name(opened_file)
    /\ (pc = "raised" /\ performance_metrics # <<>>) =>
          raised[runs + 1] # <<open_error("")>>

\* The results of a run on system.log, during which build.log was selected,
\* carry the entries of system.log under the name build.log.
C29_Witness ==
    /\ pc = "compiled"
    /\ opened_file = "/var/log/system.log"
    /\ content = files[opened_file]
    /\ analysis_results[1].entries = entries
    /\ Len(entries) = 1
    /\ analysis_results[1].file_info.name = "build.log"

----------------------------------------------------------------------------
(* Progress of the application, stated for SpecAppFair                     *)

\* The progress frame is hidden and, unless the user has cleared the
\* selection, the button of start_analysis enabled.
ReadyToAnalyseAgain ==
    /\ ~progress_shown
    /\ selected_file # "" => analyze_btn = "normal"

\* C30: after every run, one that stored results or one that raised, the
\* progress frame is hidden and the analyze button enabled at some later
\* time (the button of a cleared selection is not expected to be enabled).
C30_UiReadyAfterEveryRun ==
    (pc \in {"compiled", "handled"}) ~> ReadyToAnalyseAgain

\* A run has raised and ended and every callback has run: the progress
\* frame is still shown and the button still disabled, with the file still
\* selected and nothing left that would change either.
C30_Witness ==
    /\ pc = "idle"
    /\ runs = 1
    /\ raised[1] # <<>>
    /\ after_queue = <<>>
    /\ selected_file # ""
    /\ progress_shown
    /\ analyze_btn = "disabled"

\* Whatever hides the progress frame enables the button in the same step:
\* display_results is the only code that does either after a run.
C30_HidingEnablesTheButton ==
    [][(progress_shown /\ ~progress_shown') => analyze_btn' = "normal"]_vars

----------------------------------------------------------------------------
(* export_results                                                          *)

\* The text is the ISO-8601 form of the datetime: date, T, time, and the
\* microsecond in six digits when there is one.
IsoOf(text, dt) ==
    /\ Len(text) = IF dt.microsecond = 0 THEN 19 ELSE 26
    /\ MatchAt(text, 1, "dddd-dd-ddTdd:dd:dd")
    /\ Num(SubSeq(text, 1, 4)) = dt.year
    /\ Num(SubSeq(text, 6, 7)) = dt.month
    /\ Num(SubSeq(text, 9, 10)) = dt.day
    /\ Num(SubSeq(text, 12, 13)) = dt.hour
    /\ Num(SubSeq(text, 15, 16)) = dt.minute
    /\ Num(SubSeq(text, 18, 19)) = dt.second
    /\ dt.microsecond # 0 =>
          /\ MatchAt(text, 20, ".dddddd")
          /\ Num(SubSeq(text, 21, 26)) = dt.microsecond

\* The list of the document has the elements of the list given, each
\* timestamp as the ISO text of the datetime given.
WrittenAsIso(written, given) ==
    /\ Len(written) = Len(given)
    /\ \A i \in 1..Len(given) :
          /\ ~is_datetime(written[i].timestamp)
          /\ IsoOf(written[i].timestamp.str, given[i].timestamp)

\* The calls of export_results that had results whose timestamps were all
\* datetimes, and for which the user chose a path.
FreshExports ==
    {k \in 1..Len(exported) :
        /\ exported[k].file_path # ""
        /\ exported[k].given # <<>>
        /\ \A i \in 1..Len(exported[k].given[1].entries) :
              is_datetime(exported[k].given[1].entries[i].timestamp)}

\* The call wrote the whole document, every timestamp of entries, errors and
\* warnings as ISO text, and reported success.
ExportSucceeded(k) ==
    /\ exported[k].document # <<>>
    /\ WrittenAsIso(exported[k].document[1].entries, exported[k].given[1].entries)
    /\ WrittenAsIso(exported[k].document[1].errors, exported[k].given[1].errors)
    /\ WrittenAsIso(exported[k].document[1].warnings, exported[k].given[1].warnings)
    /\ exported[k].box[1].title = "Success"

\* C25: every export of the results of a completed analysis to a chosen path
\* writes the whole structure with every timestamp, those of errors and
\* warnings included, as an ISO-8601 string, with or without errors.
C25_ExportSerializesEveryResult == \A k \in FreshExports : ExportSucceeded(k)

\* The first export of results that hold an error and a warning: the file
\* was opened, json.dump did not finish, and the box reports the datetime.
C25_Witness ==
    /\ 1 \in FreshExports
    /\ exported[1].given[1].errors # <<>>
    /\ exported[1].given[1].warnings # <<>>
    /\ exported[1].opened
    /\ exported[1].document = <<>>
    /\ exported[1].box[1].title = "Export Error"
    /\ exported[1].box[1].message =
          "Failed to export JSON:\nObject of type datetime is not JSON serializable"

\* The exports of results without an error do succeed, entries without a
\* timestamp of their own and with a fraction of a second included.
C25_ExportWithoutErrorsSucceeds ==
    \A k \in FreshExports : exported[k].given[1].errors = <<>> => ExportSucceeded(k)

\* C26: export_results leaves self.analysis_results as it was, every
\* timestamp the same datetime before and after.
C26_ExportLeavesResults ==
    [][exported' # exported => analysis_results' = analysis_results]_vars

\* Two exports of the results of one run, each to a chosen path: the first
\* wrote the document, the second raised on the text the first had stored in
\* the entry, and the result structure holds that text.
C26_Witness ==
    /\ Len(exported) = 2
    /\ runs = 1 /\ pc = "idle"
    /\ exported[1].file_path # "" /\ exported[2].file_path # ""
    /\ exported[1].document # <<>>
    /\ exported[2].document = <<>> /\ ~exported[2].opened
    /\ exported[2].box[1].message =
          "Failed to export JSON:\n'str' object has no attribute 'isoformat'"
    /\ exported[1].given[1].entries # <<>>
    /\ is_datetime(exported[1].given[1].entries[1].timestamp)
    /\ exported[2].given = exported[1].document
    /\ ~is_datetime(analysis_results[1].entries[1].timestamp)

\* What export_results changes in the results is the timestamp of entries
\* (and of the warnings, which are entries) and nothing else; errors keep
\* their datetimes.
C26_ExportWritesTimestampsOnly ==
    \A k \in 1..Len(exported) :
        /\ exported[k].document # <<>> =>
              \A field \in DOMAIN exported[k].given[1] \ {"entries", "warnings"} :
                  exported[k].document[1][field] = exported[k].given[1][field]
        /\ exported[k].given # <<>> =>
              \A i \in 1..Len(exported[k].given[1].errors) :
                  is_datetime(exported[k].given[1].errors[i].timestamp)
====
